---------------------------- MODULE Spec2Model ----------------------------
(***************************************************************************)
(* Presence tracking and message delivery status of the chat backend.      *)
(*                                                                         *)
(* The socket handlers of socket/socketHandler.js (src/unnamed/part_001)   *)
(* run on one event loop: the code between two awaits of a handler is one  *)
(* atomic step.  A handler that is suspended at an await is a record in    *)
(* the bag `tasks`; its field pc names the store call it is waiting for.   *)
(* A store call takes effect, and the handler continues up to its next     *)
(* await, in one step, so calls of different handlers that are pending at  *)
(* the same time complete in any order.                                    *)
(*                                                                         *)
(* Time is Date.now() in milliseconds, advanced by the clock in steps of   *)
(* the sweep period.                                                       *)
(*                                                                         *)
(* The upload routes of routes/upload.js run on the same event loop: a     *)
(* route handler and each callback of a storage transfer is one step.      *)
(***************************************************************************)
EXTENDS Integers, Sequences, FiniteSets, Bags, TLC

\* ------------------------------------------------------------------ bounds
MaxSockets == 2        \* sockets that ever connect
MaxTime == 3           \* clock ticks (of CleanupIntervalMs) that are explored
MaxTasks == 2          \* handlers suspended at an await at the same time
MaxSetups == 2         \* setup events accepted on one socket
MaxCount == 2          \* manual / heartbeat updates stop beyond +-MaxCount
MaxMsgs == 1           \* messages in the store
MaxChatMsgs == 3       \* messages in the store when a chat holds several
MaxSends == 2          \* send_message events that are accepted
MaxFiles == 2          \* files of one batch
MaxBytes == 3          \* size of an uploaded file, in chunks
MaxUploadTime == 2     \* hours after which the upload clock stops

\* ------------------------------------------------- constants of the program
CleanupIntervalMs == 30000     \* setInterval(..., 30000)
StaleTimeoutMs == 60000        \* now - lastHeartbeat > 60000
UploadSweepIntervalMs == 300000   \* setInterval(..., 5 * 60 * 1000)
OneHourMs == 3600000              \* Date.now() - 60 * 60 * 1000

Sockets == 1..MaxSockets
Users == {"u1", "u2"}          \* firebaseUids that have a User document
UnknownUid == "ghost"          \* a firebaseUid without a User document
NoUser == "none"               \* undefined (socket.firebaseUid not set)
MsgIds == 1..MaxMsgs
NoSocket == 0                  \* the task does not use its socket again
NoMsg == 0                     \* a message id that is not in the store

VARIABLES
  sockOpen,          \* socket id -> the transport is connected
  sockUid,           \* socket id -> socket.firebaseUid
  hbListeners,       \* socket id -> number of heartbeat_ack listeners added by setup
  connections,       \* connectionTracker.connections
  userConnections,   \* connectionTracker.userConnections (uid -> sockets)
  connectedUsers,    \* configureSocket's connectedUsers map
  userSockets,       \* configureSocket's userSockets map
  db,                \* the users collection: uid -> presence fields
  msgs,              \* the messages collection
  now,               \* Date.now()
  tasks,             \* bag of handlers suspended at an await
  emitted,           \* events emitted by the last step, in order
  registered,        \* history: uid -> socket ids added for uid and not removed since
  offlineStamped,    \* history: uid -> the disconnect of the user's last connection
                     \*   has stamped lastSeen and no connection was added since
  uploadProgressStore,  \* routes/upload.js: upload id -> progress entry
  activeUploadTasks,    \* routes/upload.js: upload ids that hold an upload task
  uploadTasks,          \* upload id -> the storage transfer started for it
  batchRequest,         \* the POST /media/batch request in progress
  sweepDue,             \* the clock has advanced and the upload sweep has
                        \*   not run since
  cancelHist,           \* history: upload id -> cancel requests since the
                        \*   transfer of the id was started
  shadowed              \* upload id -> the earlier transfer of the id whose
                        \*   slot in activeUploadTasks a later POST /media
                        \*   has taken over

vars == <<sockOpen, sockUid, hbListeners, connections, userConnections,
          connectedUsers, userSockets, db, msgs, now, tasks, emitted, registered,
          offlineStamped, uploadProgressStore, activeUploadTasks, uploadTasks,
          batchRequest, sweepDue, cancelHist, shadowed>>

socketVars == <<sockOpen, sockUid, hbListeners, connectedUsers, userSockets>>
trackerVars == <<connections, userConnections, registered>>
uploadVars == <<uploadProgressStore, activeUploadTasks, uploadTasks,
                batchRequest, sweepDue, cancelHist, shadowed>>

\* ------------------------------------------------------ connectionTracker
NoConnection == [present |-> FALSE, firebaseUid |-> NoUser, lastHeartbeat |-> 0]

\* userConnections.get(uid)?.sockets.size || 0.  A uid whose entry was
\* deleted is the uid with the empty set: the code reads the map only
\* through this count.
getUserConnectionCount(uc, firebaseUid) ==
  IF firebaseUid \in DOMAIN uc THEN Cardinality(uc[firebaseUid]) ELSE 0

addConnectionConns(conns, socketId, firebaseUid, t) ==
  [conns EXCEPT ![socketId] =
     [present |-> TRUE, firebaseUid |-> firebaseUid, lastHeartbeat |-> t]]

addConnectionUsers(uc, socketId, firebaseUid) ==
  [uc EXCEPT ![firebaseUid] = @ \cup {socketId}]

\* removeConnection: the socket leaves the set of the uid stored in its
\* connection record, and only that set; an unknown id changes nothing.
removeConnectionConns(conns, socketId) ==
  [conns EXCEPT ![socketId] = NoConnection]

removeConnectionUsers(conns, uc, socketId) ==
  IF conns[socketId].present
    THEN [uc EXCEPT ![conns[socketId].firebaseUid] = @ \ {socketId}]
    ELSE uc

\* the value removeConnection returns
removeConnectionResult(conns, uc, socketId) ==
  IF conns[socketId].present
    THEN getUserConnectionCount(removeConnectionUsers(conns, uc, socketId),
                                conns[socketId].firebaseUid)
    ELSE 0

updateHeartbeat(conns, socketId, t) ==
  IF conns[socketId].present
    THEN [conns EXCEPT ![socketId].lastHeartbeat = t]
    ELSE conns

StaleSockets ==
  {s \in Sockets : connections[s].present
                   /\ now - connections[s].lastHeartbeat > StaleTimeoutMs}

\* history of registrations, kept next to the tracker
RegAdd(socketId, firebaseUid) ==
  [registered EXCEPT ![firebaseUid] = @ \cup {socketId}]
RegRemove(S) == [u \in Users |-> registered[u] \ S]

\* ------------------------------------------------------------------- tasks
Task(handler, pc, sock, uid, isOnline, stamp) ==
  [handler |-> handler, pc |-> pc, sock |-> sock, uid |-> uid,
   isOnline |-> isOnline, stamp |-> stamp, should |-> FALSE,
   known |-> FALSE, ret |-> 0, msg |-> 0, setStatus |-> "", push |-> FALSE,
   chat |-> "", todo |-> {}, updated |-> {}, dirty |-> {}, failed |-> FALSE]

One(t) == SetToBag({t})
Running == BagToSet(tasks)
NumTasks == BagCardinality(tasks)
Quiescent == tasks = EmptyBag

Ev(name, uid) == [ev |-> name, uid |-> uid]

\* ------------------------------------------------------- updateUserStatus
Source(t) ==
  CASE t.handler = "setup" -> "setup"
    [] t.handler = "disconnect" -> "disconnect_last"
    [] t.handler = "heartbeat_ack" -> "heartbeat"
    [] t.handler = "user online" -> "manual_online"
    [] OTHER -> "manual_offline"

\* the first findOneAndUpdate: $inc connectionCount and $set
ApplyUpdateQuery(doc, isOnline, stamp) ==
  IF isOnline
    THEN [isOnline |-> TRUE,
          connectionCount |-> doc.connectionCount + 1,
          lastSeen |-> stamp]
    ELSE [isOnline |-> doc.isOnline,
          connectionCount |-> doc.connectionCount - 1,
          lastSeen |-> stamp]

\* const statusChanged = user.isOnline !== isOnline
statusChanged(user, isOnline) == user.isOnline # isOnline

\* io.emit('userStatusChanged'), then io.emit('userOnline' | 'userOffline')
StatusEvents(t, user) ==
  IF statusChanged(user, t.isOnline) \/ Source(t) = "heartbeat"
    THEN <<Ev("userStatusChanged", t.uid),
           Ev(IF user.isOnline THEN "userOnline" ELSE "userOffline", t.uid)>>
    ELSE <<>>

\* disconnect handler after its await: connectedUsers / userSockets cleanup
DisconnectCleanup(s) ==
  /\ connectedUsers' = [connectedUsers EXCEPT ![s] = NoUser]
  /\ userSockets' = IF connectedUsers[s] # NoUser
                      THEN [userSockets EXCEPT ![connectedUsers[s]] = @ \ {s}]
                      ELSE userSockets

\* updateUserStatus has returned `user` to the handler of task t: the
\* broadcast, then the rest of the handler up to its next await or its end.
Resume(t, user) ==
  /\ CASE t.handler = "setup" ->
            /\ hbListeners' = [hbListeners EXCEPT ![t.sock] = @ + 1]
            /\ emitted' = StatusEvents(t, user) \o <<Ev("setup_complete", t.uid)>>
            /\ tasks' = tasks (-) One(t)
            /\ UNCHANGED <<connectedUsers, userSockets>>
       [] t.handler = "disconnect" ->
            /\ DisconnectCleanup(t.sock)
            /\ emitted' = StatusEvents(t, user)
            /\ tasks' = tasks (-) One(t)
            /\ UNCHANGED hbListeners
       [] t.handler = "user online" ->
            /\ emitted' = StatusEvents(t, user)
            /\ tasks' = (tasks (-) One(t)) (+) One([t EXCEPT !.pc = "delayed"])
            /\ UNCHANGED <<hbListeners, connectedUsers, userSockets>>
       [] OTHER ->
            /\ emitted' = StatusEvents(t, user)
            /\ tasks' = tasks (-) One(t)
            /\ UNCHANGED <<hbListeners, connectedUsers, userSockets>>
  /\ UNCHANGED <<sockOpen, sockUid, trackerVars, msgs, uploadVars, now>>

\* the first findOneAndUpdate completes
FirstUpdate(t) ==
  /\ t \in Running /\ t.pc = "upd1"
  /\ LET user == ApplyUpdateQuery(db[t.uid], t.isOnline, t.stamp)
         shouldBeOnline == user.connectionCount > 0
     IN /\ db' = [db EXCEPT ![t.uid] = user]
        /\ offlineStamped' =
             IF t.handler = "disconnect" /\ t.known
                /\ getUserConnectionCount(userConnections, t.uid) = 0
               THEN [offlineStamped EXCEPT ![t.uid] = TRUE]
               ELSE offlineStamped
        /\ IF user.isOnline # shouldBeOnline
             THEN /\ tasks' = (tasks (-) One(t))
                                (+) One([t EXCEPT !.pc = "upd2",
                                                  !.should = shouldBeOnline])
                  /\ emitted' = <<>>
                  /\ UNCHANGED <<socketVars, trackerVars, msgs, uploadVars, now>>
             ELSE Resume(t, user)

\* the second findOneAndUpdate ($set isOnline: shouldBeOnline) completes
SecondUpdate(t) ==
  /\ t \in Running /\ t.pc = "upd2"
  /\ LET user == [db[t.uid] EXCEPT !.isOnline = t.should]
     IN /\ db' = [db EXCEPT ![t.uid] = user]
        /\ UNCHANGED offlineStamped
        /\ Resume(t, user)

\* ------------------------------------------------------------------ setup
\* setup handlers of socket s that have not finished
SetupsInFlight(s) ==
  BagCardinality([t \in {x \in Running : x.handler = "setup" /\ x.sock = s}
                    |-> tasks[t]])

\* socket.on('setup') up to `await User.findOne`
Setup(s, uid) ==
  /\ sockOpen[s]
  /\ NumTasks < MaxTasks
  /\ hbListeners[s] + SetupsInFlight(s) < MaxSetups
  /\ tasks' = tasks (+) One(Task("setup", "findUser", s, uid, FALSE, 0))
  /\ emitted' = <<>>
  /\ UNCHANGED <<socketVars, trackerVars, db, msgs, uploadVars, now, offlineStamped>>

\* setup with userData that has no firebaseUid
SetupInvalid(s) ==
  /\ sockOpen[s]
  /\ emitted' = <<Ev("setup_error", NoUser)>>
  /\ UNCHANGED <<socketVars, trackerVars, db, msgs, uploadVars, now, offlineStamped, tasks>>

\* the user lookup of setup returns: register the socket, start updateUserStatus
SetupFound(t) ==
  /\ t \in Running /\ t.handler = "setup" /\ t.pc = "findUser"
  /\ IF t.uid \notin Users
       THEN /\ emitted' = <<Ev("setup_error", t.uid)>>
            /\ tasks' = tasks (-) One(t)
            /\ UNCHANGED <<socketVars, trackerVars, db, msgs, uploadVars, now, offlineStamped>>
       ELSE LET connectionCount ==
                  getUserConnectionCount(
                    addConnectionUsers(userConnections, t.sock, t.uid), t.uid)
                shouldMarkOnline == connectionCount = 1
            IN /\ sockUid' = [sockUid EXCEPT ![t.sock] = t.uid]
               /\ connectedUsers' = [connectedUsers EXCEPT ![t.sock] = t.uid]
               /\ userSockets' = [userSockets EXCEPT ![t.uid] = @ \cup {t.sock}]
               /\ connections' = addConnectionConns(connections, t.sock, t.uid, now)
               /\ userConnections' = addConnectionUsers(userConnections, t.sock, t.uid)
               /\ registered' = RegAdd(t.sock, t.uid)
               /\ offlineStamped' = [offlineStamped EXCEPT ![t.uid] = FALSE]
               /\ tasks' = (tasks (-) One(t))
                             (+) One([t EXCEPT !.pc = "upd1",
                                               !.isOnline = shouldMarkOnline,
                                               !.stamp = now,
                                               !.ret = connectionCount,
                                               !.known = connections[t.sock].present
                                                  /\ connections[t.sock].firebaseUid = t.uid])
               /\ emitted' = <<>>
               /\ UNCHANGED <<sockOpen, hbListeners, db, msgs, uploadVars, now>>

\* ------------------------------------------------------------- disconnect
\* socket.on('disconnect') up to its await
Disconnect(s) ==
  /\ sockOpen[s]
  /\ sockOpen' = [sockOpen EXCEPT ![s] = FALSE]
  /\ emitted' = <<>>
  /\ IF sockUid[s] = NoUser
       THEN UNCHANGED <<sockUid, hbListeners, connectedUsers, userSockets,
                        trackerVars, db, msgs, uploadVars, now, offlineStamped, tasks>>
       ELSE LET remainingConnections ==
                  removeConnectionResult(connections, userConnections, s)
                t == [Task("disconnect",
                           IF remainingConnections = 0 THEN "upd1" ELSE "touch",
                           s, sockUid[s], FALSE, now)
                        EXCEPT !.ret = remainingConnections,
                               !.known = connections[s].present]
            IN /\ NumTasks < MaxTasks
               /\ connections' = removeConnectionConns(connections, s)
               /\ userConnections' = removeConnectionUsers(connections, userConnections, s)
               /\ registered' = RegRemove({s})
               /\ tasks' = tasks (+) One(t)
               /\ UNCHANGED <<sockUid, hbListeners, connectedUsers, userSockets,
                              db, msgs, uploadVars, now, offlineStamped>>

\* disconnect with connections remaining: $set lastSeen completes
Touch(t) ==
  /\ t \in Running /\ t.pc = "touch"
  /\ db' = [db EXCEPT ![t.uid].lastSeen = t.stamp]
  /\ DisconnectCleanup(t.sock)
  /\ tasks' = tasks (-) One(t)
  /\ emitted' = <<>>
  /\ UNCHANGED <<sockOpen, sockUid, hbListeners, trackerVars, msgs, uploadVars, now, offlineStamped>>

\* --------------------------------------------- heartbeat and manual events
\* every heartbeat_ack listener that a setup added runs;
\* inWindow is Date.now() % 30000 < 1000
HeartbeatAck(s, inWindow) ==
  /\ sockOpen[s]
  /\ connections' = IF hbListeners[s] > 0
                      THEN updateHeartbeat(connections, s, now)
                      ELSE connections
  /\ IF sockUid[s] # NoUser /\ inWindow /\ hbListeners[s] > 0
       THEN /\ NumTasks + hbListeners[s] <= MaxTasks
            /\ db[sockUid[s]].connectionCount < MaxCount
            /\ LET t == Task("heartbeat_ack", "upd1", NoSocket, sockUid[s], TRUE, now)
               IN tasks' = tasks (+) [x \in {t} |-> hbListeners[s]]
       ELSE UNCHANGED tasks
  /\ emitted' = <<>>
  /\ UNCHANGED <<socketVars, userConnections, registered, db, msgs, uploadVars, now, offlineStamped>>

\* socket.on('user online', firebaseUid)
UserOnline(s, uid) ==
  /\ sockOpen[s]
  /\ NumTasks < MaxTasks
  /\ db[uid].connectionCount < MaxCount
  /\ tasks' = tasks (+) One(Task("user online", "upd1", NoSocket, uid, TRUE, now))
  /\ emitted' = <<>>
  /\ UNCHANGED <<socketVars, trackerVars, db, msgs, uploadVars, now, offlineStamped>>

\* socket.on('user offline', firebaseUid)
UserOffline(s, uid) ==
  /\ sockOpen[s]
  /\ NumTasks < MaxTasks
  /\ db[uid].connectionCount > -MaxCount
  /\ tasks' = tasks (+) One(Task("user offline", "upd1", NoSocket, uid, FALSE, now))
  /\ emitted' = <<>>
  /\ UNCHANGED <<socketVars, trackerVars, db, msgs, uploadVars, now, offlineStamped>>

\* --------------------------------------------------------------- timers
\* cleanupStaleConnections: removeConnection for every stale socket
CleanupStaleConnections ==
  /\ connections' = [s \in Sockets |->
                       IF s \in StaleSockets THEN NoConnection ELSE connections[s]]
  /\ userConnections' =
       [u \in Users |->
          userConnections[u] \ {s \in StaleSockets : connections[s].firebaseUid = u}]
  /\ registered' = RegRemove(StaleSockets)
  /\ emitted' = <<>>
  /\ UNCHANGED <<socketVars, db, msgs, uploadVars, now, offlineStamped, tasks>>

Tick ==
  /\ now < MaxTime * CleanupIntervalMs
  /\ now' = now + CleanupIntervalMs
  /\ emitted' = <<>>
  /\ UNCHANGED <<socketVars, trackerVars, db, msgs, uploadVars, tasks, offlineStamped>>

\* ---------------------------------------------------------------- messages
\* The message schema (models/Message.js) declares status and readBy and no
\* deliveredTo path: the `deliveredTo: []` given to Message.create is dropped,
\* message.deliveredTo is undefined on a loaded document and a save cannot
\* write it.  The field deliveredTo below is what the store holds for it: no
\* recipient.
Chats == {"c1", "c2"}          \* chat ids
ChatUsers(chat) == Users       \* Chat.users: both users are in every chat

\* Message.create: status 'sent', readBy empty; every message is one that u1
\* sent in chat c1
NewMessage == [status |-> "sent", readBy |-> <<>>, deliveredTo |-> <<>>,
               sender |-> "u1", chat |-> "c1"]

\* rank of a status along sending -> sent -> delivered -> read
StatusRank(st) ==
  CASE st = "sending" -> 0
    [] st = "sent" -> 1
    [] st = "delivered" -> 2
    [] st = "read" -> 3
    [] OTHER -> 1

Includes(seq, x) == \E i \in 1..Len(seq) : seq[i] = x

\* the elements of a set of ids in ascending order
RECURSIVE SeqOfSet(_)
SeqOfSet(S) ==
  IF S = {} THEN <<>>
  ELSE LET x == CHOOSE y \in S : \A z \in S : y <= z
       IN <<x>> \o SeqOfSet(S \ {x})

\* an event sent to a room (a chat id, or the personal room of a uid)
RoomEv(name, room) == [ev |-> name, room |-> room]
\* an event about one message sent to a room
MsgEv(name, room, m) == [ev |-> name, room |-> room, msg |-> m]
\* an event sent to one socket
SockEv(name, s) == [ev |-> name, sock |-> s]

\* senderSocket.emit(name) for every connected socket in userSockets.get(key);
\* the key is undefined (NoUser) when message.sender was not populated
SenderSocketEvents(name, key) ==
  LET S == IF key \in Users THEN {s \in userSockets[key] : sockOpen[s]} ELSE {}
      order == SeqOfSet(S)
  IN [i \in 1..Len(order) |-> SockEv(name, order[i])]

\* document.save(): the modified paths reach the store as $set status and
\* $push readBy
SaveFields(doc, setStatus, push, userId) ==
  [doc EXCEPT !.status = IF setStatus # "" THEN setStatus ELSE @,
              !.readBy = IF push THEN Append(@, userId) ELSE @]

SaveMessage(t) ==
  [msgs EXCEPT ![t.msg] = SaveFields(@, t.setStatus, t.push, t.uid)]

\* markAsDelivered: this.status = 'delivered'
markAsDelivered(doc) == [doc EXCEPT !.status = "delivered"]

\* markAsRead: readBy.push(userId) unless included; this.status = 'read'
markAsRead(doc, userId) ==
  [doc EXCEPT !.readBy = IF Includes(@, userId) THEN @ ELSE Append(@, userId),
              !.status = "read"]

msgOther == <<socketVars, trackerVars, db, now, offlineStamped, uploadVars>>

\* socket.on('message delivered') up to `await Message.findById`
MessageDelivered(s, m) ==
  /\ sockOpen[s]
  /\ NumTasks < MaxTasks
  /\ tasks' = tasks (+) One([Task("message delivered", "findMsg", s, sockUid[s], FALSE, now)
                               EXCEPT !.msg = m])
  /\ emitted' = <<>>
  /\ UNCHANGED <<msgOther, msgs>>

\* the lookups of 'message delivered' return.  Unknown message or user: return.
\* Otherwise message.deliveredTo.includes(...) throws a TypeError, which the
\* handler's catch logs: nothing is saved and nothing is emitted.
MessageDeliveredLoaded(t) ==
  /\ t \in Running /\ t.handler = "message delivered" /\ t.pc = "findMsg"
  /\ tasks' = tasks (-) One(t)
  /\ emitted' = <<>>
  /\ UNCHANGED <<msgOther, msgs>>

\* socket.on('message read') up to `await User.findOne`; firebaseUid is data.firebaseUid
MessageRead(s, m, uid) ==
  /\ sockOpen[s]
  /\ NumTasks < MaxTasks
  /\ tasks' = tasks (+) One([Task("message read", "findMsg", s, uid, FALSE, now)
                               EXCEPT !.msg = m])
  /\ emitted' = <<>>
  /\ UNCHANGED <<msgOther, msgs>>

\* events after a read acknowledgement was handled: message.sender is not
\* populated, so the sender lookup in userSockets uses the key undefined and
\* finds nothing; the chat room gets 'message read update'
ReadEvents(t) ==
  SenderSocketEvents("message_read", NoUser) \o <<Ev("message read update", t.uid)>>

\* Message.findById of 'message read' returns
MessageReadLoaded(t) ==
  /\ t \in Running /\ t.handler = "message read" /\ t.pc = "findMsg"
  /\ IF t.uid \notin Users \/ t.msg \notin DOMAIN msgs
       THEN /\ tasks' = tasks (-) One(t)
            /\ emitted' = <<>>
       ELSE IF ~Includes(msgs[t.msg].readBy, t.uid)
         THEN /\ tasks' = (tasks (-) One(t))
                            (+) One([t EXCEPT !.pc = "save", !.push = TRUE,
                                              !.setStatus =
                                                 IF msgs[t.msg].status = "read"
                                                   THEN "" ELSE "read"])
              /\ emitted' = <<>>
         ELSE /\ tasks' = tasks (-) One(t)
              /\ emitted' = ReadEvents(t)
  /\ UNCHANGED <<msgOther, msgs>>

\* PUT /:messageId/delivered up to `await Message.findById`
PutDelivered(m) ==
  /\ NumTasks < MaxTasks
  /\ tasks' = tasks (+) One([Task("PUT delivered", "findMsg", NoSocket, NoUser, FALSE, now)
                               EXCEPT !.msg = m])
  /\ emitted' = <<>>
  /\ UNCHANGED <<msgOther, msgs>>

\* findById of PUT delivered returns: 404, or markAsDelivered and save
PutDeliveredLoaded(t) ==
  /\ t \in Running /\ t.handler = "PUT delivered" /\ t.pc = "findMsg"
  /\ IF t.msg \notin DOMAIN msgs
       THEN /\ tasks' = tasks (-) One(t)
            /\ emitted' = <<Ev("404", t.uid)>>
       ELSE LET doc == markAsDelivered(msgs[t.msg])
            IN /\ tasks' = (tasks (-) One(t))
                             (+) One([t EXCEPT !.pc = "save",
                                               !.setStatus =
                                                  IF doc.status = msgs[t.msg].status
                                                    THEN "" ELSE doc.status])
               /\ emitted' = <<>>
  /\ UNCHANGED <<msgOther, msgs>>

\* PUT /:messageId/read up to `await Message.findById`
PutRead(m, uid) ==
  /\ NumTasks < MaxTasks
  /\ tasks' = tasks (+) One([Task("PUT read", "findMsg", NoSocket, uid, FALSE, now)
                               EXCEPT !.msg = m])
  /\ emitted' = <<>>
  /\ UNCHANGED <<msgOther, msgs>>

\* findById of PUT read returns: 404, or markAsRead and save
PutReadLoaded(t) ==
  /\ t \in Running /\ t.handler = "PUT read" /\ t.pc = "findMsg"
  /\ IF t.msg \notin DOMAIN msgs
       THEN /\ tasks' = tasks (-) One(t)
            /\ emitted' = <<Ev("404", t.uid)>>
       ELSE LET doc == markAsRead(msgs[t.msg], t.uid)
            IN /\ tasks' = (tasks (-) One(t))
                             (+) One([t EXCEPT !.pc = "save",
                                               !.push = doc.readBy # msgs[t.msg].readBy,
                                               !.setStatus =
                                                  IF doc.status = msgs[t.msg].status
                                                    THEN "" ELSE doc.status])
               /\ emitted' = <<>>
  /\ UNCHANGED <<msgOther, msgs>>

\* message.save() of a handler completes; the handler emits and ends
SaveDone(t) ==
  /\ t \in Running /\ t.pc = "save"
  /\ msgs' = SaveMessage(t)
  /\ tasks' = tasks (-) One(t)
  /\ emitted' = CASE t.handler = "message read" -> ReadEvents(t)
                  [] t.handler = "PUT delivered" ->
                       <<Ev("message delivered", t.uid), Ev("200", t.uid)>>
                  [] OTHER -> <<Ev("message read", t.uid), Ev("200", t.uid)>>
  /\ UNCHANGED msgOther

\* message.save() of a handler rejects.  The catch of a socket handler logs
\* the error and emits nothing; the catch of a route answers 500.
SaveFailed(t) ==
  /\ t \in Running /\ t.pc = "save"
  /\ tasks' = tasks (-) One(t)
  /\ emitted' = IF t.handler = "message read" THEN <<>> ELSE <<Ev("500", t.uid)>>
  /\ UNCHANGED <<msgOther, msgs>>

\* socket.on('all_messages_read') up to `await User.findOne`
AllMessagesRead(s, chat, uid) ==
  /\ sockOpen[s]
  /\ NumTasks < MaxTasks
  /\ tasks' = tasks (+) One([Task("all_messages_read", "findUnread", s, uid, FALSE, now)
                               EXCEPT !.chat = chat])
  /\ emitted' = <<>>
  /\ UNCHANGED <<msgOther, msgs>>

\* Message.find({chat, sender: {$ne: user}, readBy: {$ne: user}})
UnreadMessages(chat, uid) ==
  {m \in DOMAIN msgs : /\ msgs[m].chat = chat
                       /\ msgs[m].sender # uid
                       /\ ~Includes(msgs[m].readBy, uid)}

\* the query of all_messages_read returns.  Nothing unread: return.  Otherwise
\* every found message gets the reader pushed and status 'read', and all the
\* saves are started before the handler awaits Promise.all.
AllReadFound(t) ==
  /\ t \in Running /\ t.handler = "all_messages_read" /\ t.pc = "findUnread"
  /\ LET unreadMessages == UnreadMessages(t.chat, t.uid)
     IN IF t.uid \notin Users \/ unreadMessages = {}
          THEN tasks' = tasks (-) One(t)
          ELSE tasks' = (tasks (-) One(t))
                          (+) One([t EXCEPT !.pc = "saves",
                                            !.todo = unreadMessages,
                                            !.updated = unreadMessages,
                                            !.dirty = {m \in unreadMessages :
                                                         msgs[m].status # "read"}])
  /\ emitted' = <<>>
  /\ UNCHANGED <<msgOther, msgs>>

\* after Promise.all: io.to(chatId).emit('all_messages_read'), then for every
\* updated id Message.findById(...).populate('sender') and
\* io.to(sender.firebaseUid).emit('message_read')
AllReadEvents(t) ==
  LET order == SeqOfSet(t.updated)
  IN <<RoomEv("all_messages_read", t.chat)>>
       \o [i \in 1..Len(order) |-> RoomEv("message_read", msgs[order[i]].sender)]

\* one of the saves of all_messages_read completes (ok) or rejects.  A
\* rejection rejects Promise.all: the catch logs it and the handler emits
\* nothing, while the saves that were started still reach the store.
AllReadSave(t, m, ok) ==
  /\ t \in Running /\ t.handler = "all_messages_read" /\ t.pc = "saves"
  /\ m \in t.todo
  /\ msgs' = IF ok
               THEN [msgs EXCEPT ![m] =
                       SaveFields(@, IF m \in t.dirty THEN "read" ELSE "", TRUE, t.uid)]
               ELSE msgs
  /\ LET failed == t.failed \/ ~ok
         todo == t.todo \ {m}
     IN IF todo = {}
          THEN /\ tasks' = tasks (-) One(t)
               /\ emitted' = IF failed THEN <<>> ELSE AllReadEvents(t)
          ELSE /\ tasks' = (tasks (-) One(t))
                             (+) One([t EXCEPT !.todo = todo, !.failed = failed])
               /\ emitted' = <<>>
  /\ UNCHANGED msgOther

\* handleDelayedDelivery, called by 'user online' once updateUserStatus has
\* returned a user.  It selects the messages with status 'pending' in the
\* user's chats that the user did not send.
PendingMessages(uid) ==
  {m \in DOMAIN msgs : /\ msgs[m].status = "pending"
                       /\ uid \in ChatUsers(msgs[m].chat)
                       /\ msgs[m].sender # uid}

\* For the first selected message it emits messageReceived to the user's room
\* and delayedDelivery to the sender's sockets; then message.deliveredTo.push
\* throws, which ends the run in the catch around the loop before anything is
\* saved.
DelayedDelivery(t) ==
  /\ t \in Running /\ t.pc = "delayed"
  /\ tasks' = tasks (-) One(t)
  /\ emitted' =
       IF PendingMessages(t.uid) = {}
         THEN <<>>
         ELSE LET message == SeqOfSet(PendingMessages(t.uid))[1]
              IN <<MsgEv("messageReceived", t.uid, message)>>
                   \o SenderSocketEvents("delayedDelivery", msgs[message].sender)
  /\ UNCHANGED <<msgOther, msgs>>

\* ------------------------------------------------------------ send_message
UnknownChat == "c0"            \* a well-formed chat id without a Chat document
\* the branches of send_message, chosen by messageData
MessageKinds == {"text", "media", "grouped_media", "post_share"}

\* an event about one message sent to one socket
SockMsgEv(name, s, m) == [ev |-> name, sock |-> s, msg |-> m]

\* the catch of send_message: socket.emit('message_error')
SendError(t) ==
  /\ tasks' = tasks (-) One(t)
  /\ emitted' = <<SockEv("message_error", t.sock)>>

\* socket.on('send_message') up to `await User.findOne` of its branch
SendMessage(s, uid, chat, kind) ==
  /\ sockOpen[s]
  /\ NumTasks < MaxTasks
  /\ Len(msgs) + Cardinality({t \in Running : t.handler = "send_message"})
       < MaxSends
  /\ tasks' = tasks (+) One([Task("send_message", "findUser", s, uid, FALSE, now)
                               EXCEPT !.chat = chat, !.setStatus = kind])
  /\ emitted' = <<>>
  /\ UNCHANGED <<msgOther, msgs>>

\* a send_message that confirms and broadcasts as soon as the sender is known,
\* before Message.create
SendUserFoundOptimistic(t) ==
  /\ t \in Running /\ t.handler = "send_message" /\ t.pc = "findUser"
  /\ IF t.uid \notin Users
       THEN SendError(t)
       ELSE /\ tasks' = (tasks (-) One(t)) (+) One([t EXCEPT !.pc = "create"])
            /\ emitted' = <<SockMsgEv("message_sent", t.sock, t.msg),
                            MsgEv("messageReceived", t.chat, t.msg)>>
  /\ UNCHANGED <<msgOther, msgs>>

\* User.findOne returns: an unknown sender throws
SendUserFound(t) ==
  /\ t \in Running /\ t.handler = "send_message" /\ t.pc = "findUser"
  /\ IF t.uid \notin Users
       THEN SendError(t)
       ELSE /\ tasks' = (tasks (-) One(t)) (+) One([t EXCEPT !.pc = "create"])
            /\ emitted' = <<>>
  /\ UNCHANGED <<msgOther, msgs>>

\* Message.create({..., status: 'sent', deliveredTo: [], readBy: []}) resolves
\* (ok) or rejects.  The post_share branch creates with messageType 'post',
\* which the messageType enum does not hold: validation rejects it.
SendCreate(t, ok) ==
  /\ t \in Running /\ t.handler = "send_message" /\ t.pc = "create"
  /\ IF ok /\ t.setStatus # "post_share"
       THEN /\ msgs' = Append(msgs, [NewMessage EXCEPT !.sender = t.uid,
                                                       !.chat = t.chat])
            /\ tasks' = (tasks (-) One(t))
                          (+) One([t EXCEPT !.pc = "populate", !.msg = Len(msgs) + 1])
            /\ emitted' = <<>>
       ELSE /\ SendError(t)
            /\ UNCHANGED msgs
  /\ UNCHANGED msgOther

\* Message.findById(...).populate('sender').populate('chat') resolves or rejects
SendPopulate(t, ok) ==
  /\ t \in Running /\ t.handler = "send_message" /\ t.pc = "populate"
  /\ IF ok
       THEN /\ tasks' = (tasks (-) One(t)) (+) One([t EXCEPT !.pc = "updateChat"])
            /\ emitted' = <<>>
       ELSE SendError(t)
  /\ UNCHANGED <<msgOther, msgs>>

\* Chat.findByIdAndUpdate resolves or rejects; then the handler formats the
\* message (message.chat._id throws when the chat was not found), confirms to
\* the sender and broadcasts to the chat room
SendUpdateChat(t, ok) ==
  /\ t \in Running /\ t.handler = "send_message" /\ t.pc = "updateChat"
  /\ IF ok /\ t.chat \in Chats
       THEN /\ tasks' = tasks (-) One(t)
            /\ emitted' = <<SockMsgEv("message_sent", t.sock, t.msg),
                            MsgEv("messageReceived", t.chat, t.msg)>>
       ELSE SendError(t)
  /\ UNCHANGED <<msgOther, msgs>>

\* ---------------------------------------------------------------- uploads
\* routes/upload.js.  The route handlers and the callbacks of a storage
\* transfer run on the same event loop as the socket handlers.  A response
\* of a route is recorded in `emitted`, like an event.
BatchIds == {"b1"}             \* batchId values of the requests
PlainNames == {"up1"}          \* uploadId values that name no batch file
NoBatch == "none"              \* batchId undefined
NoIndex == -1                  \* fileIndex undefined
FileIndexes == 0..(MaxFiles - 1)

\* `${batchId}_${i}`
FileUploadId(batchId, i) == [name |-> batchId, index |-> i]
PlainId(name) == [name |-> name, index |-> NoIndex]
NoId == PlainId("none")        \* uploadId undefined

FileIds == {FileUploadId(b, i) : b \in BatchIds, i \in FileIndexes}
UploadIds == {PlainId(n) : n \in PlainNames} \cup FileIds
UploadKeys == UploadIds \cup {PlainId(b) : b \in BatchIds}

\* Math.floor(x / n)
RoundDown(x, n) == x \div n

\* Math.round(x / n) for x >= 0 and n > 0
Round(x, n) == (2 * x + n) \div (2 * n)

\* Math.round((bytesTransferred / totalBytes) * 100)
Percent(bytes, total) == Round(bytes * 100, total)

NoEntry == [progress |-> 0, status |-> "absent", batchId |-> NoBatch, timestamp |-> 0]
Entry(progress, status, batchId) ==
  [progress |-> progress, status |-> status, batchId |-> batchId, timestamp |-> now]
Has(store, id) == store[id].status # "absent"

\* a transfer: `since` is the time of its start or of its last progress
\* callback
NoTransfer ==
  [state |-> "none", route |-> "none", batchId |-> NoBatch, bytes |-> 0,
   since |-> 0]
Ended(state) == [NoTransfer EXCEPT !.state = state]
Idle(id) == uploadTasks[id].state \in {"none", "done", "failed", "canceled"}

NoHist == [requested |-> FALSE, removed |-> FALSE]
NoBatchRequest ==
  [pc |-> "idle", batchId |-> NoBatch, files |-> 0, i |-> 0, completed |-> 0,
   uploadResults |-> <<>>]

\* an element of uploadResults: the entry of a file that has uploaded (it
\* holds the url) or the entry that the catch of the loop pushes
FileResult(i, ok) == [fileIndex |-> i, success |-> ok]

\* uploadResults.filter(r => r.url)
SuccessfulUploads(uploadResults) == SelectSeq(uploadResults, LAMBDA r : r.success)

chatVars == <<socketVars, trackerVars, db, msgs, tasks, offlineStamped>>

UploadInit ==
  /\ uploadProgressStore = [id \in UploadKeys |-> NoEntry]
  /\ activeUploadTasks = {}
  /\ uploadTasks = [id \in UploadIds |-> NoTransfer]
  /\ batchRequest = NoBatchRequest
  /\ sweepDue = FALSE
  /\ cancelHist = [id \in UploadKeys |-> NoHist]
  /\ shadowed = [id \in UploadIds |-> NoTransfer]

Response(route, status) == [ev |-> "response", route |-> route, status |-> status]

\* uploadTask.cancel(): a running transfer starts to cancel; the call has no
\* effect on a transfer that has succeeded, failed or is cancelling
cancel(task) ==
  IF task.state = "running" THEN [task EXCEPT !.state = "canceling"] ELSE task

\* POST /media up to the return of the route handler: the 'starting' entry
\* and the upload task
StartMedia(id, batchId) ==
  /\ Idle(id)
  /\ ~(batchRequest.pc # "idle" /\ id.name = batchRequest.batchId)
  /\ uploadProgressStore' =
       [uploadProgressStore EXCEPT ![id] = Entry(0, "starting", batchId)]
  /\ activeUploadTasks' = activeUploadTasks \cup {id}
  /\ uploadTasks' = [uploadTasks EXCEPT ![id] =
                       [state |-> "running", route |-> "media",
                        batchId |-> batchId, bytes |-> 0, since |-> now]]
  /\ cancelHist' = [cancelHist EXCEPT ![id] = NoHist]
  /\ emitted' = <<>>
  /\ UNCHANGED <<chatVars, shadowed, now, batchRequest, sweepDue>>

\* the 'state_changed' progress callback of either route
TransferProgress(id) ==
  /\ uploadTasks[id].state = "running"
  /\ uploadTasks[id].bytes < MaxBytes
  /\ LET bytes == uploadTasks[id].bytes + 1
     IN /\ uploadTasks' = [uploadTasks EXCEPT ![id].bytes = bytes,
                                               ![id].since = now]
        /\ uploadProgressStore' =
             [uploadProgressStore EXCEPT ![id] =
                Entry(Percent(bytes, MaxBytes), "uploading", uploadTasks[id].batchId)]
  /\ emitted' = <<>>
  /\ UNCHANGED <<chatVars, shadowed, now, activeUploadTasks, batchRequest, sweepDue, cancelHist>>

\* a loop without the try/catch around the file: a failure ends the request
BatchSettledOrAborted(ok) ==
  IF ok THEN [batchRequest EXCEPT
               !.pc = "delay", !.completed = @ + 1,
               !.uploadResults = Append(@, FileResult(batchRequest.i, TRUE))]
  ELSE NoBatchRequest

\* POST /media/batch: the loop goes on after file i has settled, at the
\* 300 ms delay
BatchSettled(ok) ==
  [batchRequest EXCEPT !.pc = "delay",
                       !.completed = IF ok THEN @ + 1 ELSE @,
                       !.uploadResults = Append(@, FileResult(batchRequest.i, ok))]

\* the entry of the batch after file i has completed
BatchEntry(completed, files) ==
  Entry(Round(completed * 100, files), "uploading", NoBatch)

\* the 'state_changed' error callback: the transfer has failed
TransferError(id) ==
  /\ uploadTasks[id].state = "running"
  /\ uploadTasks' = [uploadTasks EXCEPT ![id] = Ended("failed")]
  /\ activeUploadTasks' = activeUploadTasks \ {id}
  /\ IF uploadTasks[id].route = "media"
       THEN /\ uploadProgressStore' =
                 [uploadProgressStore EXCEPT ![id] = Entry(0, "error", NoBatch)]
            /\ emitted' = <<Response("media", 500)>>
            /\ UNCHANGED batchRequest
       ELSE /\ batchRequest' = BatchSettled(FALSE)
            /\ emitted' = <<>>
            /\ UNCHANGED uploadProgressStore
  /\ UNCHANGED <<chatVars, shadowed, now, sweepDue, cancelHist>>

\* a completion handler that resolves the promise of the file before its
\* awaits
TransferCompleteResolved(id) ==
  /\ uploadTasks[id].state = "running"
  /\ uploadTasks' = [uploadTasks EXCEPT ![id].state = "processing",
                                        ![id].bytes = MaxBytes]
  /\ batchRequest' = IF uploadTasks[id].route = "batch"
                       THEN [batchRequest EXCEPT !.pc = "delay"]
                       ELSE batchRequest
  /\ emitted' = <<>>
  /\ UNCHANGED <<chatVars, shadowed, now, uploadProgressStore, activeUploadTasks,
                 sweepDue, cancelHist>>

\* the transfer has succeeded: the completion handler up to
\* `await getDownloadURL`
TransferComplete(id) ==
  /\ uploadTasks[id].state = "running"
  /\ uploadTasks' = [uploadTasks EXCEPT ![id].state = "processing",
                                        ![id].bytes = MaxBytes]
  /\ emitted' = <<>>
  /\ UNCHANGED <<chatVars, shadowed, now, uploadProgressStore, activeUploadTasks,
                 batchRequest, sweepDue, cancelHist>>

\* the completion handler after its awaits (download URL, thumbnail,
\* dimensions); ok: getDownloadURL has resolved
ProcessingDone(id, ok) ==
  /\ uploadTasks[id].state = "processing"
  /\ uploadTasks' = [uploadTasks EXCEPT ![id] =
                       Ended(IF ok THEN "done" ELSE "failed")]
  /\ activeUploadTasks' = activeUploadTasks \ {id}
  /\ IF uploadTasks[id].route = "media"
       THEN /\ uploadProgressStore' =
                 IF ok THEN [uploadProgressStore EXCEPT ![id] =
                               Entry(100, "complete", uploadTasks[id].batchId)]
                 ELSE uploadProgressStore
            /\ emitted' = <<Response("media", IF ok THEN 200 ELSE 500)>>
            /\ UNCHANGED batchRequest
       ELSE /\ batchRequest' = BatchSettled(ok)
            /\ uploadProgressStore' =
                 IF ok THEN [uploadProgressStore EXCEPT
                               ![id] = Entry(100, "complete", uploadTasks[id].batchId),
                               ![PlainId(batchRequest.batchId)] =
                                  BatchEntry(batchRequest.completed + 1,
                                             batchRequest.files)]
                 ELSE uploadProgressStore
            /\ emitted' = <<>>
  /\ UNCHANGED <<chatVars, shadowed, now, sweepDue, cancelHist>>

\* a cancelled transfer ends with storage/canceled: the error callback and
\* then the catch of uploadTask.then(), in one job of the event loop
TransferCanceled(id) ==
  /\ uploadTasks[id].state = "canceling"
  /\ uploadTasks' = [uploadTasks EXCEPT ![id] = Ended("canceled")]
  /\ activeUploadTasks' = activeUploadTasks \ {id}
  /\ uploadProgressStore' = [uploadProgressStore EXCEPT ![id] = NoEntry]
  /\ IF uploadTasks[id].route = "media"
       THEN /\ emitted' = <<Response("media", 499)>>
            /\ UNCHANGED batchRequest
       ELSE /\ batchRequest' = BatchSettled(FALSE)
            /\ emitted' = <<>>
  /\ UNCHANGED <<chatVars, shadowed, now, sweepDue, cancelHist>>

\* ---- a second POST /media with the uploadId of a transfer in flight
InFlight(task) == task.state \in {"running", "processing", "canceling"}

\* POST /media with an uploadId whose transfer has not ended: the entry is
\* rewritten as 'starting' and activeUploadTasks.set replaces the task of the
\* earlier transfer, which goes on with its own callbacks
RestartMedia(id, batchId) ==
  /\ InFlight(uploadTasks[id])
  /\ uploadTasks[id].route = "media"
  /\ ~InFlight(shadowed[id])
  /\ shadowed' = [shadowed EXCEPT ![id] = uploadTasks[id]]
  /\ uploadProgressStore' =
       [uploadProgressStore EXCEPT ![id] = Entry(0, "starting", batchId)]
  /\ activeUploadTasks' = activeUploadTasks \cup {id}
  /\ uploadTasks' = [uploadTasks EXCEPT ![id] =
                       [state |-> "running", route |-> "media",
                        batchId |-> batchId, bytes |-> 0, since |-> now]]
  /\ cancelHist' = [cancelHist EXCEPT ![id] = NoHist]
  /\ emitted' = <<>>
  /\ UNCHANGED <<chatVars, now, batchRequest, sweepDue>>

\* the progress callback of the earlier transfer
ShadowProgress(id) ==
  /\ shadowed[id].state = "running"
  /\ shadowed[id].bytes < MaxBytes
  /\ LET bytes == shadowed[id].bytes + 1
     IN /\ shadowed' = [shadowed EXCEPT ![id].bytes = bytes, ![id].since = now]
        /\ uploadProgressStore' =
             [uploadProgressStore EXCEPT ![id] =
                Entry(Percent(bytes, MaxBytes), "uploading", shadowed[id].batchId)]
  /\ emitted' = <<>>
  /\ UNCHANGED <<chatVars, now, activeUploadTasks, uploadTasks, batchRequest,
                 sweepDue, cancelHist>>

\* the error callback of the earlier transfer
ShadowError(id) ==
  /\ shadowed[id].state = "running"
  /\ shadowed' = [shadowed EXCEPT ![id] = Ended("failed")]
  /\ activeUploadTasks' = activeUploadTasks \ {id}
  /\ uploadProgressStore' =
       [uploadProgressStore EXCEPT ![id] = Entry(0, "error", NoBatch)]
  /\ emitted' = <<Response("media", 500)>>
  /\ UNCHANGED <<chatVars, now, uploadTasks, batchRequest, sweepDue, cancelHist>>

\* the earlier transfer has succeeded: its completion handler up to
\* `await getDownloadURL`
ShadowComplete(id) ==
  /\ shadowed[id].state = "running"
  /\ shadowed' = [shadowed EXCEPT ![id].state = "processing",
                                  ![id].bytes = MaxBytes]
  /\ emitted' = <<>>
  /\ UNCHANGED <<chatVars, now, uploadProgressStore, activeUploadTasks,
                 uploadTasks, batchRequest, sweepDue, cancelHist>>

\* the completion handler of the earlier transfer after its awaits
ShadowProcessingDone(id, ok) ==
  /\ shadowed[id].state = "processing"
  /\ shadowed' = [shadowed EXCEPT ![id] = Ended(IF ok THEN "done" ELSE "failed")]
  /\ activeUploadTasks' = activeUploadTasks \ {id}
  /\ uploadProgressStore' =
       IF ok THEN [uploadProgressStore EXCEPT ![id] =
                     Entry(100, "complete", shadowed[id].batchId)]
       ELSE uploadProgressStore
  /\ emitted' = <<Response("media", IF ok THEN 200 ELSE 500)>>
  /\ UNCHANGED <<chatVars, now, uploadTasks, batchRequest, sweepDue, cancelHist>>

\* the earlier transfer, cancelled before the second request, ends with
\* storage/canceled
ShadowCanceled(id) ==
  /\ shadowed[id].state = "canceling"
  /\ shadowed' = [shadowed EXCEPT ![id] = Ended("canceled")]
  /\ activeUploadTasks' = activeUploadTasks \ {id}
  /\ uploadProgressStore' = [uploadProgressStore EXCEPT ![id] = NoEntry]
  /\ emitted' = <<Response("media", 499)>>
  /\ UNCHANGED <<chatVars, now, uploadTasks, batchRequest, sweepDue, cancelHist>>

\* ---- POST /cancel
CancelResponse(count) ==
  [ev |-> "response", route |-> "cancel", status |-> 200, success |-> TRUE,
   message |-> IF count > 0 THEN "Successfully cancelled"
               ELSE "No active uploads found to cancel",
   cancelledCount |-> count]

\* uploadTask.cancel(), the two deletes and cancelledCount++
CancelTasks(st, ids) ==
  [store |-> [id \in UploadKeys |-> IF id \in ids THEN NoEntry ELSE st.store[id]],
   active |-> st.active \ ids,
   xfers |-> [id \in UploadIds |-> IF id \in ids THEN cancel(st.xfers[id])
                                    ELSE st.xfers[id]],
   count |-> st.count + Cardinality(ids)]

\* CASE 1: if (uploadId)
CancelCase1(st, uploadId) ==
  IF uploadId = NoId THEN st
  ELSE IF uploadId \in st.active THEN CancelTasks(st, {uploadId})
  ELSE [st EXCEPT !.store[uploadId] = NoEntry]

\* CASE 2: if (batchId && !uploadId)
BatchTasks(st, batchId) ==
  {id \in st.active : Has(st.store, id) /\ st.store[id].batchId = batchId}

CancelCase2(st, uploadId, batchId) ==
  IF batchId = NoBatch \/ uploadId # NoId THEN st
  ELSE [CancelTasks(st, BatchTasks(st, batchId))
          EXCEPT !.store[PlainId(batchId)] = NoEntry]

\* CASE 3: if (batchId && fileIndex !== undefined)
CancelCase3(st, batchId, fileIndex) ==
  IF batchId = NoBatch \/ fileIndex = NoIndex THEN st
  ELSE IF FileUploadId(batchId, fileIndex) \in st.active
         THEN CancelTasks(st, {FileUploadId(batchId, fileIndex)})
  ELSE st

CancelResult(uploadId, batchId, fileIndex) ==
  CancelCase3(
    CancelCase2(
      CancelCase1([store |-> uploadProgressStore, active |-> activeUploadTasks,
                   xfers |-> uploadTasks, count |-> 0], uploadId),
      uploadId, batchId),
    batchId, fileIndex)

\* the ids whose task or entry the request has removed
Removed(st) ==
  (activeUploadTasks \ st.active)
    \cup {id \in UploadKeys : Has(uploadProgressStore, id) /\ ~Has(st.store, id)}

Cancel(uploadId, batchId, fileIndex) ==
  LET st == CancelResult(uploadId, batchId, fileIndex)
  IN /\ uploadProgressStore' = st.store
     /\ activeUploadTasks' = st.active
     /\ uploadTasks' = st.xfers
     /\ emitted' = <<CancelResponse(st.count)>>
     /\ cancelHist' =
          [id \in UploadKeys |->
             [requested |-> cancelHist[id].requested \/ id = uploadId,
              removed |-> cancelHist[id].removed \/ id \in Removed(st)]]
     /\ UNCHANGED <<chatVars, shadowed, now, batchRequest, sweepDue>>

\* ---- the cleanup timer
Stale(store, id) ==
  Has(store, id) /\ store[id].timestamp < now - OneHourMs

CleanupLog(cleanedProgress, cleanedTasks) ==
  [ev |-> "cleanup", progress |-> cleanedProgress, tasks |-> cleanedTasks]

\* a second loop that skips the tasks without entry
StaleTasksWithEntry(store) ==
  {id \in activeUploadTasks : Stale(store, id)}

\* the tasks that the second loop removes, given the store that the first
\* loop has left
StaleTasks(store) ==
  {id \in activeUploadTasks : ~Has(store, id) \/ Stale(store, id)}

UploadSweep ==
  /\ sweepDue
  /\ LET staleEntries == {id \in UploadKeys : Stale(uploadProgressStore, id)}
         store == [id \in UploadKeys |->
                     IF id \in staleEntries THEN NoEntry ELSE uploadProgressStore[id]]
         staleTasks == StaleTasks(store)
     IN /\ uploadProgressStore' = store
        /\ activeUploadTasks' = activeUploadTasks \ staleTasks
        /\ uploadTasks' = [id \in UploadIds |->
                             IF id \in staleTasks THEN cancel(uploadTasks[id])
                             ELSE uploadTasks[id]]
        /\ emitted' = IF staleEntries # {} \/ staleTasks # {}
                        THEN <<CleanupLog(Cardinality(staleEntries),
                                          Cardinality(staleTasks))>>
                        ELSE <<>>
  /\ sweepDue' = FALSE
  /\ UNCHANGED <<chatVars, shadowed, now, batchRequest, cancelHist>>

\* the clock advances to a later run of the cleanup timer.  The runs that
\* are skipped find nothing that this run does not find.
UploadTickSteps == {OneHourMs, OneHourMs + UploadSweepIntervalMs}

UploadTick(d) ==
  /\ ~sweepDue
  /\ now < MaxUploadTime * OneHourMs
  /\ now' = now + d
  /\ sweepDue' = TRUE
  /\ emitted' = <<>>
  /\ UNCHANGED <<chatVars, shadowed, uploadProgressStore, activeUploadTasks, uploadTasks,
                 batchRequest, cancelHist>>

\* ---- queries
ProgressResponse(id) ==
  IF ~Has(uploadProgressStore, id)
    THEN [ev |-> "response", route |-> "progress", status |-> 404, uploadId |-> id]
    ELSE [ev |-> "response", route |-> "progress", status |-> 200, uploadId |-> id,
          progress |-> uploadProgressStore[id].progress,
          state |-> uploadProgressStore[id].status,
          isActive |-> id \in activeUploadTasks]

\* GET /progress/:uploadId
GetProgress(id) ==
  /\ emitted' = <<ProgressResponse(id)>>
  /\ UNCHANGED <<chatVars, now, uploadVars>>

\* the sessions that GET /progress/batch/:batchId collects
BatchFiles(batchId) ==
  {id \in UploadKeys : Has(uploadProgressStore, id)
                         /\ uploadProgressStore[id].batchId = batchId}

RECURSIVE TotalProgress(_)
TotalProgress(ids) ==
  IF ids = {} THEN 0
  ELSE LET id == CHOOSE x \in ids : TRUE
       IN uploadProgressStore[id].progress + TotalProgress(ids \ {id})

BatchProgressResponse(batchId) ==
  LET fileCount == Cardinality(BatchFiles(batchId))
  IN IF fileCount = 0
       THEN [ev |-> "response", route |-> "batchProgress", status |-> 404,
             batchId |-> batchId]
       ELSE [ev |-> "response", route |-> "batchProgress", status |-> 200,
             batchId |-> batchId,
             progress |-> Round(TotalProgress(BatchFiles(batchId)), fileCount),
             totalFiles |-> fileCount]

\* GET /progress/batch/:batchId
GetBatchProgress(batchId) ==
  /\ emitted' = <<BatchProgressResponse(batchId)>>
  /\ UNCHANGED <<chatVars, now, uploadVars>>

\* DELETE /progress/:uploadId
DeleteProgress(id) ==
  /\ activeUploadTasks' = activeUploadTasks \ {id}
  /\ uploadTasks' = IF id \in activeUploadTasks
                      THEN [uploadTasks EXCEPT ![id] = cancel(@)]
                      ELSE uploadTasks
  /\ uploadProgressStore' = [uploadProgressStore EXCEPT ![id] = NoEntry]
  /\ emitted' = <<Response("deleteProgress",
                           IF Has(uploadProgressStore, id) THEN 200 ELSE 404)>>
  /\ UNCHANGED <<chatVars, shadowed, now, batchRequest, sweepDue, cancelHist>>

\* ---- POST /media/batch
BatchResponse(status, uploads, totalCount) ==
  [ev |-> "response", route |-> "batch", status |-> status,
   uploads |-> uploads, successfulCount |-> Len(uploads),
   totalCount |-> totalCount]

\* the body of the loop for file i up to `await new Promise`: the upload
\* task of the file
StartFile(batchId, i) ==
  /\ activeUploadTasks' = activeUploadTasks \cup {FileUploadId(batchId, i)}
  /\ uploadTasks' = [uploadTasks EXCEPT ![FileUploadId(batchId, i)] =
                       [state |-> "running", route |-> "batch",
                        batchId |-> batchId, bytes |-> 0, since |-> now]]
  /\ cancelHist' = [cancelHist EXCEPT
                      ![FileUploadId(batchId, i)] = NoHist,
                      ![PlainId(batchId)] = IF i = 0 THEN NoHist ELSE @]

\* POST /media/batch up to the first await
StartBatch(batchId, files) ==
  /\ batchRequest.pc = "idle"
  /\ \A i \in FileIndexes : Idle(FileUploadId(batchId, i))
  /\ IF files = 0
       THEN /\ emitted' = <<BatchResponse(400, <<>>, 0)>>
            /\ UNCHANGED uploadVars
       ELSE /\ uploadProgressStore' =
                 [uploadProgressStore EXCEPT ![PlainId(batchId)] =
                    Entry(0, "starting", NoBatch)]
            /\ batchRequest' = [pc |-> "upload", batchId |-> batchId,
                                files |-> files, i |-> 0, completed |-> 0,
                                uploadResults |-> <<>>]
            /\ StartFile(batchId, 0)
            /\ emitted' = <<>>
            /\ UNCHANGED sweepDue
  /\ UNCHANGED <<chatVars, shadowed, now>>

\* the 300 ms delay has passed: the next file, or the end of the request
BatchDelay ==
  /\ batchRequest.pc = "delay"
  /\ IF batchRequest.i + 1 < batchRequest.files
       THEN /\ batchRequest' = [batchRequest EXCEPT !.pc = "upload", !.i = @ + 1]
            /\ StartFile(batchRequest.batchId, batchRequest.i + 1)
            /\ emitted' = <<>>
            /\ UNCHANGED uploadProgressStore
       ELSE /\ uploadProgressStore' =
                 [uploadProgressStore EXCEPT ![PlainId(batchRequest.batchId)] =
                    Entry(100, "complete", NoBatch)]
            /\ batchRequest' = NoBatchRequest
            /\ emitted' = <<BatchResponse(
                              200, SuccessfulUploads(batchRequest.uploadResults),
                              batchRequest.files)>>
            /\ UNCHANGED <<activeUploadTasks, uploadTasks, cancelHist>>
  /\ UNCHANGED <<chatVars, shadowed, now, sweepDue>>

\* ------------------------------------------------------- specifications
NewUser == [isOnline |-> FALSE, connectionCount |-> 0, lastSeen |-> 0]

Init ==
  /\ sockOpen = [s \in Sockets |-> TRUE]
  /\ sockUid = [s \in Sockets |-> NoUser]
  /\ hbListeners = [s \in Sockets |-> 0]
  /\ connections = [s \in Sockets |-> NoConnection]
  /\ userConnections = [u \in Users |-> {}]
  /\ connectedUsers = [s \in Sockets |-> NoUser]
  /\ userSockets = [u \in Users |-> {}]
  /\ db = [u \in Users |-> NewUser]
  /\ msgs = [m \in MsgIds |-> NewMessage]
  /\ now = 0
  /\ tasks = EmptyBag
  /\ emitted = <<>>
  /\ registered = [u \in Users |-> {}]
  /\ offlineStamped = [u \in Users |-> FALSE]
  /\ UploadInit

UpdateStep == \E t \in Running : FirstUpdate(t) \/ SecondUpdate(t)

\* all events: presence, timers, message acknowledgements
Next ==
  \/ \E s \in Sockets, uid \in Users \cup {UnknownUid} : Setup(s, uid)
  \/ \E s \in Sockets : SetupInvalid(s)
  \/ \E t \in Running : SetupFound(t)
  \/ \E t \in Running : FirstUpdate(t)
  \/ \E t \in Running : SecondUpdate(t)
  \/ \E s \in Sockets : Disconnect(s)
  \/ \E t \in Running : Touch(t)
  \/ \E s \in Sockets, inWindow \in BOOLEAN : HeartbeatAck(s, inWindow)
  \/ \E s \in Sockets, uid \in Users : UserOnline(s, uid)
  \/ \E s \in Sockets, uid \in Users : UserOffline(s, uid)
  \/ \E t \in Running : DelayedDelivery(t)
  \/ CleanupStaleConnections
  \/ Tick
  \/ \E s \in Sockets, m \in MsgIds \cup {NoMsg} : MessageDelivered(s, m)
  \/ \E t \in Running : MessageDeliveredLoaded(t)
  \/ \E s \in Sockets, m \in MsgIds \cup {NoMsg}, uid \in Users : MessageRead(s, m, uid)
  \/ \E t \in Running : MessageReadLoaded(t)
  \/ \E m \in MsgIds \cup {NoMsg} : PutDelivered(m)
  \/ \E t \in Running : PutDeliveredLoaded(t)
  \/ \E m \in MsgIds \cup {NoMsg}, uid \in Users : PutRead(m, uid)
  \/ \E t \in Running : PutReadLoaded(t)
  \/ \E t \in Running : SaveDone(t)
  \/ \E t \in Running : SaveFailed(t)
  \/ \E s \in Sockets, chat \in Chats, uid \in Users : AllMessagesRead(s, chat, uid)
  \/ \E t \in Running : AllReadFound(t)
  \/ \E t \in Running, m \in DOMAIN msgs, ok \in BOOLEAN : AllReadSave(t, m, ok)
  \/ \E s \in Sockets, uid \in Users \cup {UnknownUid},
        chat \in Chats \cup {UnknownChat}, kind \in MessageKinds :
       SendMessage(s, uid, chat, kind)
  \/ \E t \in Running : SendUserFound(t)
  \/ \E t \in Running, ok \in BOOLEAN : SendCreate(t, ok)
  \/ \E t \in Running, ok \in BOOLEAN : SendPopulate(t, ok)
  \/ \E t \in Running, ok \in BOOLEAN : SendUpdateChat(t, ok)
  \/ \E id \in UploadIds, batchId \in BatchIds \cup {NoBatch} : StartMedia(id, batchId)
  \/ \E id \in UploadIds, batchId \in BatchIds \cup {NoBatch} : RestartMedia(id, batchId)
  \/ \E id \in UploadIds : ShadowProgress(id)
  \/ \E id \in UploadIds : ShadowError(id)
  \/ \E id \in UploadIds : ShadowComplete(id)
  \/ \E id \in UploadIds, ok \in BOOLEAN : ShadowProcessingDone(id, ok)
  \/ \E id \in UploadIds : ShadowCanceled(id)
  \/ \E id \in UploadIds : TransferProgress(id)
  \/ \E id \in UploadIds : TransferError(id)
  \/ \E id \in UploadIds : TransferComplete(id)
  \/ \E id \in UploadIds, ok \in BOOLEAN : ProcessingDone(id, ok)
  \/ \E id \in UploadIds : TransferCanceled(id)
  \/ \E uploadId \in UploadIds \cup {NoId}, batchId \in BatchIds \cup {NoBatch},
        fileIndex \in FileIndexes \cup {NoIndex} :
       Cancel(uploadId, batchId, fileIndex)
  \/ UploadSweep
  \/ \E d \in UploadTickSteps : UploadTick(d)
  \/ \E id \in UploadKeys : GetProgress(id)
  \/ \E batchId \in BatchIds : GetBatchProgress(batchId)
  \/ \E id \in UploadIds : DeleteProgress(id)
  \/ \E batchId \in BatchIds, files \in 0..MaxFiles : StartBatch(batchId, files)
  \/ BatchDelay

\* every handler and timer.  The specifications below keep the events a
\* property is about, so that each of them can be explored exhaustively.
Spec == Init /\ [][Next]_vars

\* setup and disconnect events only
ConnNext ==
  \/ \E s \in Sockets, uid \in Users : Setup(s, uid)
  \/ \E t \in Running : SetupFound(t)
  \/ \E t \in Running : FirstUpdate(t)
  \/ \E t \in Running : SecondUpdate(t)
  \/ \E s \in Sockets : Disconnect(s)
  \/ \E t \in Running : Touch(t)

ConnSpec == Init /\ [][ConnNext]_vars

\* setup, heartbeat_ack, 'user online', 'user offline' and disconnect events
PresenceNext ==
  \/ \E s \in Sockets, uid \in {"u1"} : Setup(s, uid)
  \/ \E t \in Running : SetupFound(t)
  \/ \E t \in Running : FirstUpdate(t)
  \/ \E t \in Running : SecondUpdate(t)
  \/ \E s \in Sockets : Disconnect(s)
  \/ \E t \in Running : Touch(t)
  \/ \E s \in Sockets, inWindow \in BOOLEAN : HeartbeatAck(s, inWindow)
  \/ \E s \in Sockets, uid \in {"u1"} : UserOnline(s, uid)
  \/ \E s \in Sockets, uid \in {"u1"} : UserOffline(s, uid)
  \/ \E t \in Running : DelayedDelivery(t)

PresenceSpec == Init /\ [][PresenceNext]_vars

\* setup, heartbeat_ack and disconnect events, the sweep and the clock
SweepNext ==
  \/ \E s \in Sockets, uid \in {"u1"} : Setup(s, uid)
  \/ \E t \in Running : SetupFound(t)
  \/ \E t \in Running : FirstUpdate(t)
  \/ \E t \in Running : SecondUpdate(t)
  \/ \E s \in Sockets : Disconnect(s)
  \/ \E t \in Running : Touch(t)
  \/ \E s \in Sockets : HeartbeatAck(s, FALSE)
  \/ CleanupStaleConnections
  \/ Tick

SweepSpec == Init /\ [][SweepNext]_vars

\* the state after socket 1 ran setup for u1 and socket 2 for u2, with a later
\* heartbeat_ack outside the lastSeen window
SetUpUser(s) == IF s = 1 THEN "u1" ELSE IF s = 2 THEN "u2" ELSE NoUser
SetUpSockets(u) == {s \in Sockets : SetUpUser(s) = u}

MsgInit ==
  /\ sockOpen = [s \in Sockets |-> TRUE]
  /\ sockUid = [s \in Sockets |-> SetUpUser(s)]
  /\ hbListeners = [s \in Sockets |-> IF SetUpUser(s) = NoUser THEN 0 ELSE 1]
  /\ connections = [s \in Sockets |->
                      IF SetUpUser(s) = NoUser THEN NoConnection
                      ELSE [present |-> TRUE, firebaseUid |-> SetUpUser(s),
                            lastHeartbeat |-> 0]]
  /\ userConnections = [u \in Users |-> SetUpSockets(u)]
  /\ connectedUsers = [s \in Sockets |-> SetUpUser(s)]
  /\ userSockets = [u \in Users |-> SetUpSockets(u)]
  /\ db = [u \in Users |-> [isOnline |-> TRUE, connectionCount |-> 1, lastSeen |-> 0]]
  /\ msgs = [m \in MsgIds |-> NewMessage]
  /\ now = 0
  /\ tasks = EmptyBag
  /\ emitted = <<>>
  /\ registered = [u \in Users |-> SetUpSockets(u)]
  /\ offlineStamped = [u \in Users |-> FALSE]
  /\ UploadInit

\* delivery and read acknowledgements over the socket and over HTTP, and the
\* reconciler run that 'user online' starts
MsgNext ==
  \/ \E s \in Sockets, m \in MsgIds \cup {NoMsg} : MessageDelivered(s, m)
  \/ \E t \in Running : MessageDeliveredLoaded(t)
  \/ \E s \in Sockets, m \in MsgIds \cup {NoMsg}, uid \in Users : MessageRead(s, m, uid)
  \/ \E t \in Running : MessageReadLoaded(t)
  \/ \E m \in MsgIds \cup {NoMsg} : PutDelivered(m)
  \/ \E t \in Running : PutDeliveredLoaded(t)
  \/ \E m \in MsgIds \cup {NoMsg}, uid \in Users : PutRead(m, uid)
  \/ \E t \in Running : PutReadLoaded(t)
  \/ \E t \in Running : SaveDone(t)
  \/ \E t \in Running : SaveFailed(t)
  \/ \E s \in Sockets, chat \in Chats : AllMessagesRead(s, chat, sockUid[s])
  \/ \E t \in Running : AllReadFound(t)
  \/ \E t \in Running, m \in DOMAIN msgs, ok \in BOOLEAN : AllReadSave(t, m, ok)
  \/ \E s \in Sockets : UserOnline(s, sockUid[s])
  \/ \E t \in Running : FirstUpdate(t)
  \/ \E t \in Running : DelayedDelivery(t)

MsgSpec == MsgInit /\ [][MsgNext]_vars

\* several messages in the store: u1 sent the first
\* two in chat c1, u2 the third in chat c1, and u1 the later ones in chat c2
ChatMessage(m) ==
  [NewMessage EXCEPT !.sender = IF m = 3 THEN "u2" ELSE "u1",
                     !.chat = IF m > 3 THEN "c2" ELSE "c1"]

\* socket 1 ran setup for the sender u1; the other sockets are connected and
\* ran no setup, and the recipient u2 is offline
ChatSetUp(s) == IF s = 1 THEN "u1" ELSE NoUser
ChatSockets(u) == {s \in Sockets : ChatSetUp(s) = u}

ChatInit ==
  /\ sockOpen = [s \in Sockets |-> TRUE]
  /\ sockUid = [s \in Sockets |-> ChatSetUp(s)]
  /\ hbListeners = [s \in Sockets |-> IF ChatSetUp(s) = NoUser THEN 0 ELSE 1]
  /\ connections = [s \in Sockets |->
                      IF ChatSetUp(s) = NoUser THEN NoConnection
                      ELSE [present |-> TRUE, firebaseUid |-> ChatSetUp(s),
                            lastHeartbeat |-> 0]]
  /\ userConnections = [u \in Users |-> ChatSockets(u)]
  /\ connectedUsers = [s \in Sockets |-> ChatSetUp(s)]
  /\ userSockets = [u \in Users |-> ChatSockets(u)]
  /\ db = [u \in Users |->
            IF ChatSockets(u) = {} THEN NewUser
            ELSE [isOnline |-> TRUE, connectionCount |-> 1, lastSeen |-> 0]]
  /\ msgs = [m \in 1..MaxChatMsgs |-> ChatMessage(m)]
  /\ now = 0
  /\ tasks = EmptyBag
  /\ emitted = <<>>
  /\ registered = [u \in Users |-> ChatSockets(u)]
  /\ offlineStamped = [u \in Users |-> FALSE]
  /\ UploadInit

\* bulk read, the acknowledgements over HTTP and the reconciler run that
\* 'user online' starts, on a chat with several messages; the events are
\* those of the user who receives the first messages, sent on one of the
\* sockets without setup
Recipient == "u2"

ChatNext ==
  \/ \E s \in ChatSockets(NoUser), chat \in Chats :
       AllMessagesRead(s, chat, Recipient)
  \/ \E t \in Running : AllReadFound(t)
  \/ \E t \in Running, m \in DOMAIN msgs, ok \in BOOLEAN : AllReadSave(t, m, ok)
  \/ \E m \in DOMAIN msgs : PutDelivered(m)
  \/ \E t \in Running : PutDeliveredLoaded(t)
  \/ \E m \in DOMAIN msgs : PutRead(m, Recipient)
  \/ \E t \in Running : PutReadLoaded(t)
  \/ \E t \in Running : SaveDone(t)
  \/ \E s \in ChatSockets(NoUser) : UserOnline(s, Recipient)
  \/ \E t \in Running : FirstUpdate(t)
  \/ \E t \in Running : DelayedDelivery(t)

ChatSpec == ChatInit /\ [][ChatNext]_vars

\* send_message events on sockets that ran setup, on an empty store
SendInit ==
  /\ sockOpen = [s \in Sockets |-> TRUE]
  /\ sockUid = [s \in Sockets |-> SetUpUser(s)]
  /\ hbListeners = [s \in Sockets |-> IF SetUpUser(s) = NoUser THEN 0 ELSE 1]
  /\ connections = [s \in Sockets |->
                      IF SetUpUser(s) = NoUser THEN NoConnection
                      ELSE [present |-> TRUE, firebaseUid |-> SetUpUser(s),
                            lastHeartbeat |-> 0]]
  /\ userConnections = [u \in Users |-> SetUpSockets(u)]
  /\ connectedUsers = [s \in Sockets |-> SetUpUser(s)]
  /\ userSockets = [u \in Users |-> SetUpSockets(u)]
  /\ db = [u \in Users |-> [isOnline |-> TRUE, connectionCount |-> 1, lastSeen |-> 0]]
  /\ msgs = <<>>
  /\ now = 0
  /\ tasks = EmptyBag
  /\ emitted = <<>>
  /\ registered = [u \in Users |-> SetUpSockets(u)]
  /\ offlineStamped = [u \in Users |-> FALSE]
  /\ UploadInit

SendNext ==
  \/ \E s \in Sockets, uid \in Users \cup {UnknownUid},
        chat \in Chats \cup {UnknownChat}, kind \in MessageKinds :
       SendMessage(s, uid, chat, kind)
  \/ \E t \in Running : SendUserFound(t)
  \/ \E t \in Running, ok \in BOOLEAN : SendCreate(t, ok)
  \/ \E t \in Running, ok \in BOOLEAN : SendPopulate(t, ok)
  \/ \E t \in Running, ok \in BOOLEAN : SendUpdateChat(t, ok)

SendSpec == SendInit /\ [][SendNext]_vars

\* the batch of a file id, as the client sends it with POST /media
MediaBatch(id) == IF id.index = NoIndex THEN NoBatch ELSE id.name

\* POST /media for the files of a batch, as the client sends them, with
\* their transfers, the three forms of POST /cancel and the progress queries
UploadNext ==
  \/ \E id \in FileIds : StartMedia(id, MediaBatch(id))
  \/ \E id \in FileIds : TransferProgress(id)
  \/ \E id \in FileIds : TransferError(id)
  \/ \E id \in FileIds : TransferComplete(id)
  \/ \E id \in FileIds, ok \in BOOLEAN : ProcessingDone(id, ok)
  \/ \E id \in FileIds : TransferCanceled(id)
  \/ \E id \in FileIds : Cancel(id, NoBatch, NoIndex)
  \/ \E batchId \in BatchIds, fileIndex \in FileIndexes \cup {NoIndex} :
       Cancel(NoId, batchId, fileIndex)
  \/ \E id \in FileIds : GetProgress(id)
  \/ \E batchId \in BatchIds : GetBatchProgress(batchId)

UploadSpec == Init /\ [][UploadNext]_vars

\* POST /media and POST /media/batch of one file with their transfers, the
\* cleanup timer and the clock
UploadSweepNext ==
  \/ \E name \in PlainNames : StartMedia(PlainId(name), NoBatch)
  \/ \E batchId \in BatchIds, files \in {1} : StartBatch(batchId, files)
  \/ BatchDelay
  \/ \E id \in UploadIds : TransferProgress(id)
  \/ \E id \in UploadIds : TransferError(id)
  \/ \E id \in UploadIds : TransferComplete(id)
  \/ \E id \in UploadIds, ok \in BOOLEAN : ProcessingDone(id, ok)
  \/ \E id \in UploadIds : TransferCanceled(id)
  \/ UploadSweep
  \/ \E d \in UploadTickSteps : UploadTick(d)

UploadSweepSpec == Init /\ [][UploadSweepNext]_vars

\* POST /media/batch with the transfers of its files, and POST /cancel for
\* one upload id and for the batch
BatchNext ==
  \/ \E batchId \in BatchIds, files \in 0..MaxFiles : StartBatch(batchId, files)
  \/ BatchDelay
  \/ \E id \in FileIds : TransferProgress(id)
  \/ \E id \in FileIds : TransferError(id)
  \/ \E id \in FileIds : TransferComplete(id)
  \/ \E id \in FileIds, ok \in BOOLEAN : ProcessingDone(id, ok)
  \/ \E id \in FileIds : TransferCanceled(id)
  \/ \E id \in FileIds : Cancel(id, NoBatch, NoIndex)
  \/ \E batchId \in BatchIds : Cancel(NoId, batchId, NoIndex)

BatchSpec == Init /\ [][BatchNext]_vars

\* POST /media twice with one uploadId, the transfers of both requests and
\* POST /cancel
RestartNext ==
  \/ \E id \in {PlainId(n) : n \in PlainNames} : StartMedia(id, NoBatch)
  \/ \E id \in UploadIds : RestartMedia(id, NoBatch)
  \/ \E id \in UploadIds : TransferProgress(id)
  \/ \E id \in UploadIds : TransferError(id)
  \/ \E id \in UploadIds : TransferComplete(id)
  \/ \E id \in UploadIds, ok \in BOOLEAN : ProcessingDone(id, ok)
  \/ \E id \in UploadIds : TransferCanceled(id)
  \/ \E id \in UploadIds : ShadowProgress(id)
  \/ \E id \in UploadIds : ShadowError(id)
  \/ \E id \in UploadIds : ShadowComplete(id)
  \/ \E id \in UploadIds, ok \in BOOLEAN : ShadowProcessingDone(id, ok)
  \/ \E id \in UploadIds : ShadowCanceled(id)
  \/ \E id \in {PlainId(n) : n \in PlainNames} : Cancel(id, NoBatch, NoIndex)

RestartSpec == Init /\ [][RestartNext]_vars

\* ------------------------------------------------------------- properties
Count(u) == getUserConnectionCount(userConnections, u)

PresenceEventsFor(seq, name, u) ==
  Cardinality({i \in 1..Len(seq) : seq[i] = Ev(name, u)})

\* C1: whenever no socket handler is in flight, a user's persisted isOnline
\* flag is true exactly when connectionTracker holds at least one connection
\* for that user.
C1_OnlineIffTracked ==
  Quiescent => \A u \in Users : db[u].isOnline = (Count(u) > 0)

\* C2: once interleaved setup and disconnect handlers of a user have all
\* completed, the persisted connectionCount is not negative and isOnline
\* equals (connectionCount > 0).
C2_CountAndFlagAgree ==
  Quiescent => \A u \in Users :
                 /\ db[u].connectionCount >= 0
                 /\ db[u].isOnline = (db[u].connectionCount > 0)

\* C3: getUserConnectionCount(user) is never negative and equals the number
\* of socket ids that were registered for the user and not removed since.
C3_CountIsRegistrations ==
  \A u \in Users : Count(u) >= 0 /\ Count(u) = Cardinality(registered[u])

\* C4: userOnline is emitted exactly once by a step that changes a user's
\* online flag from false to true, userOffline exactly once by a step that
\* changes it from true to false, and neither by a step that leaves it.
C4_BroadcastOncePerEdge ==
  [][\A u \in Users :
       /\ (~db[u].isOnline /\ db'[u].isOnline)
            => /\ PresenceEventsFor(emitted', "userOnline", u) = 1
               /\ PresenceEventsFor(emitted', "userOffline", u) = 0
       /\ (db[u].isOnline /\ ~db'[u].isOnline)
            => /\ PresenceEventsFor(emitted', "userOffline", u) = 1
               /\ PresenceEventsFor(emitted', "userOnline", u) = 0
       /\ (db[u].isOnline = db'[u].isOnline)
            => /\ PresenceEventsFor(emitted', "userOnline", u) = 0
               /\ PresenceEventsFor(emitted', "userOffline", u) = 0]_vars

\* C5: the store updates that heartbeat_ack, 'user online' and 'user offline'
\* start leave every user's connectionCount and isOnline unchanged.
C5_OnlyRegistrationsChangePresence ==
  [][\A t \in Running :
       (/\ t.handler \in {"heartbeat_ack", "user online", "user offline"}
        /\ (FirstUpdate(t) \/ SecondUpdate(t)))
         => \A u \in Users : /\ db'[u].connectionCount = db[u].connectionCount
                             /\ db'[u].isOnline = db[u].isOnline]_vars

\* C6: a disconnect whose socket id is no longer in the tracker leaves the
\* tracker unchanged and gets from removeConnection the current number of
\* connections of the socket's user.
C6_RemoveUnknownIsIdempotent ==
  [][\A s \in Sockets :
       (Disconnect(s) /\ sockUid[s] # NoUser /\ ~connections[s].present)
         => /\ UNCHANGED <<connections, userConnections>>
            /\ \E t \in BagToSet(tasks') :
                 /\ t.handler = "disconnect" /\ t.sock = s
                 /\ t.ret = getUserConnectionCount(userConnections', sockUid[s])]_vars

\* C7: a sweep that removes a user's last connection starts what the
\* disconnect of that connection starts: the updateUserStatus call that marks
\* the user offline, stamps lastSeen and emits userOffline.
OfflineUpdate(u, t) ==
  /\ t.pc = "upd1" /\ t.uid = u /\ ~t.isOnline /\ t.stamp = now

C7_SweepActsAsDisconnect ==
  [][\A u \in Users :
       (CleanupStaleConnections /\ Count(u) > 0
        /\ getUserConnectionCount(userConnections', u) = 0)
         => \E t \in BagToSet(tasks') :
              OfflineUpdate(u, t) /\ CopiesIn(t, tasks') > CopiesIn(t, tasks)]_vars

\* C8: once the disconnect of a user's last connection has stamped lastSeen
\* and the user is offline, the disconnect of a socket that was already
\* removed from the tracker, running alone, leaves the user's lastSeen unchanged.
C8_LastSeenKeptOnRepeatedUnregister ==
  [][\A t \in Running :
       (/\ t.handler = "disconnect" /\ ~t.known
        /\ offlineStamped[t.uid] /\ ~db[t.uid].isOnline /\ Count(t.uid) = 0
        /\ NumTasks = 1
        /\ (FirstUpdate(t) \/ SecondUpdate(t) \/ Touch(t)))
         => db'[t.uid].lastSeen = db[t.uid].lastSeen]_vars

\* C9: a setup on a socket that is already registered for the same user,
\* running alone, changes neither the tracker's count nor the persisted connectionCount nor
\* the online flag of that user.
AlreadyRegistered(s, u) ==
  connections[s].present /\ connections[s].firebaseUid = u

C9_RepeatedSetupApplied ==
  [][\A t \in Running :
       /\ (t.handler = "setup" /\ t.pc = "findUser" /\ t.uid \in Users
           /\ AlreadyRegistered(t.sock, t.uid) /\ SetupFound(t))
            => getUserConnectionCount(userConnections', t.uid) = Count(t.uid)
       /\ (t.handler = "setup" /\ t.pc \in {"upd1", "upd2"} /\ t.known
           /\ NumTasks = 1
           /\ (FirstUpdate(t) \/ SecondUpdate(t)))
            => /\ db'[t.uid].connectionCount = db[t.uid].connectionCount
               /\ db'[t.uid].isOnline = db[t.uid].isOnline]_vars

\* C10: no step moves a message's status backwards along
\* sending -> sent -> delivered -> read.
C10_StatusNeverRegresses ==
  [][\A m \in DOMAIN msgs :
       StatusRank(msgs'[m].status) >= StatusRank(msgs[m].status)]_vars

\* number of entries of a stored array that are the user
Occurrences(seq, x) == Cardinality({i \in 1..Len(seq) : seq[i] = x})

\* C11: once a 'message delivered' acknowledgement of a recipient for a
\* message has been processed, deliveredTo holds that recipient exactly once;
\* an acknowledgement of a recipient who is already in deliveredTo changes
\* neither deliveredTo nor status.
C11_DeliveredAckIdempotent ==
  [][\A t \in Running :
       (/\ t.handler = "message delivered"
        /\ t.uid \in Users /\ t.msg \in DOMAIN msgs
        /\ MessageDeliveredLoaded(t))
         => /\ Occurrences(msgs'[t.msg].deliveredTo, t.uid) = 1
            /\ Includes(msgs[t.msg].deliveredTo, t.uid)
                 => /\ msgs'[t.msg].deliveredTo = msgs[t.msg].deliveredTo
                    /\ msgs'[t.msg].status = msgs[t.msg].status]_vars

\* C12: deliveredTo and readBy never contain the same user twice.
C12_RecipientsAreSets ==
  \A m \in DOMAIN msgs, u \in Users :
    /\ Occurrences(msgs[m].readBy, u) <= 1
    /\ Occurrences(msgs[m].deliveredTo, u) <= 1

\* C13: a user who is in a message's readBy is in its deliveredTo as well.
C13_ReadImpliesDelivered ==
  \A m \in DOMAIN msgs, u \in Users :
    Includes(msgs[m].readBy, u) => Includes(msgs[m].deliveredTo, u)

\* C14: a step changes a message's status to delivered only from sent.
C14_DeliveredOnlyFromSent ==
  [][\A m \in DOMAIN msgs :
       (msgs'[m].status = "delivered" /\ msgs[m].status # "delivered")
         => msgs[m].status = "sent"]_vars

\* C15: the step that finishes processing a delivery or read acknowledgement
\* for a message emits message_delivered, respectively message_read, to every
\* connected socket of the message's sender (to the socket, or to the
\* sender's personal room).
SenderSockets(m) == {s \in userSockets[msgs[m].sender] : sockOpen[s]}

Received(seq, name, m, s) ==
  \E i \in 1..Len(seq) :
    seq[i] = SockEv(name, s) \/ seq[i] = RoomEv(name, msgs[m].sender)

AckProcessed(t) ==
  /\ t.uid \in Users /\ t.msg \in DOMAIN msgs
  /\ \/ t.handler = "message delivered" /\ MessageDeliveredLoaded(t)
     \/ t.handler = "message read" /\ t.pc = "save" /\ SaveDone(t)
     \/ /\ t.handler = "message read" /\ MessageReadLoaded(t)
        /\ Includes(msgs[t.msg].readBy, t.uid)

C15_SenderNotifiedOnEverySocket ==
  [][\A t \in Running :
       AckProcessed(t)
         => \A s \in SenderSockets(t.msg) :
              Received(emitted',
                       IF t.handler = "message delivered"
                         THEN "message_delivered" ELSE "message_read",
                       t.msg, s)]_vars

\* C16: the step in which the save of 'message read' or of
\* all_messages_read fails emits an error event to the socket that sent the
\* acknowledgement.
ErrorNames == {"message_delivered_error", "message_read_error",
               "all_messages_read_error", "error"}

ErrorSentTo(seq, s) ==
  \E i \in 1..Len(seq), name \in ErrorNames : seq[i] = SockEv(name, s)

C16_SaveFailureReported ==
  [][\A t \in Running :
       (\/ t.handler = "message read" /\ SaveFailed(t)
        \/ \E m \in DOMAIN msgs : AllReadSave(t, m, FALSE))
         => ErrorSentTo(emitted', t.sock)]_vars

\* C17: when an all_messages_read handler ends without a store failure,
\* every message of its chat that the reader did not send has the reader in
\* readBy and status read; its saves leave the messages that the reader sent
\* and the messages of other chats unchanged.
AllReadCompletes(t) ==
  /\ t.handler = "all_messages_read" /\ t.uid \in Users
  /\ \/ AllReadFound(t) /\ UnreadMessages(t.chat, t.uid) = {}
     \/ \E m \in DOMAIN msgs :
          AllReadSave(t, m, TRUE) /\ ~t.failed /\ t.todo = {m}

C17_BulkReadMarksWholeChat ==
  [][\A t \in Running :
       /\ AllReadCompletes(t)
            => \A m \in DOMAIN msgs :
                 (msgs'[m].chat = t.chat /\ msgs'[m].sender # t.uid)
                   => /\ Includes(msgs'[m].readBy, t.uid)
                      /\ msgs'[m].status = "read"
       /\ (\E m \in DOMAIN msgs, ok \in BOOLEAN : AllReadSave(t, m, ok))
            => \A k \in DOMAIN msgs :
                 (msgs[k].chat # t.chat \/ msgs[k].sender = t.uid)
                   => msgs'[k] = msgs[k]]_vars

\* the messages a reconciler run for a user has to replay: in a chat of the
\* user, not sent by the user, status sent or offline, user not in deliveredTo
Replayable(uid) ==
  {m \in DOMAIN msgs : /\ uid \in ChatUsers(msgs[m].chat)
                       /\ msgs[m].sender # uid
                       /\ msgs[m].status \in {"sent", "offline"}
                       /\ ~Includes(msgs[m].deliveredTo, uid)}

Pushed(seq, uid, m) ==
  \E i \in 1..Len(seq) : seq[i] = MsgEv("messageReceived", uid, m)

\* C18: a reconciler run for a user pushes every replayable message to the
\* user, adds the user to its deliveredTo and notifies the connected sockets
\* of its sender with delayedDelivery.
C18_ReconcilerReplaysUndelivered ==
  [][\A t \in Running :
       (t.pc = "delayed" /\ DelayedDelivery(t))
         => \A m \in Replayable(t.uid) :
              /\ Pushed(emitted', t.uid, m)
              /\ Includes(msgs'[m].deliveredTo, t.uid)
              /\ \A s \in SenderSockets(m) :
                   \E i \in 1..Len(emitted') :
                     emitted'[i] = SockEv("delayedDelivery", s)]_vars

\* C19: a step starts a reconciler run for a user exactly when it changes the
\* user's online flag from false to true.
ReconcilerStarted(u) ==
  \E t \in BagToSet(tasks') :
    /\ t.pc = "delayed" /\ t.uid = u
    /\ CopiesIn(t, tasks') > CopiesIn(t, tasks)

C19_ReconcileOncePerOnlineEdge ==
  [][\A u \in Users :
       ReconcilerStarted(u) <=> (~db[u].isOnline /\ db'[u].isOnline)]_vars

C21_ConfirmAfterCreate ==
  [][/\ \A i \in 1..Len(emitted'), m \in 0..MaxSends, s \in Sockets,
          c \in Chats \cup {UnknownChat} :
          /\ emitted'[i] = SockMsgEv("message_sent", s, m)
               => m \in DOMAIN msgs /\ msgs[m].status = "sent"
          /\ emitted'[i] = MsgEv("messageReceived", c, m)
               => m \in DOMAIN msgs /\ msgs[m].status = "sent" /\ msgs[m].chat = c
     /\ \A t \in Running :
          (t.handler = "send_message" /\ t.pc = "create"
           /\ SendCreate(t, FALSE))
            => /\ emitted' = <<SockEv("message_error", t.sock)>>
               /\ msgs' = msgs
               /\ tasks' = tasks (-) One(t)]_vars

\* a send_message has been confirmed and broadcast for the second message
\* of the store
C21_Witness ==
  /\ Len(msgs) = 2
  /\ \E s \in Sockets, c \in Chats :
       emitted = <<SockMsgEv("message_sent", s, 2), MsgEv("messageReceived", c, 2)>>

\* C22: after POST /cancel with only a batchId the progress store holds no
\* session that carries the batchId, and the progress query for every upload
\* id of the batch answers 404.
C22_BatchCancelRemovesEverySession ==
  [][\A b \in BatchIds :
       Cancel(NoId, b, NoIndex)
         => /\ \A id \in UploadKeys :
                 Has(uploadProgressStore', id) => uploadProgressStore'[id].batchId # b
            /\ \A i \in FileIndexes :
                 ProgressResponse(FileUploadId(b, i))'.status = 404]_vars

\* C23: POST /cancel with a batchId and a fileIndex and no uploadId leaves
\* the entry, the task and the transfer of every other upload id unchanged.
C23_FileCancelLeavesOtherFiles ==
  [][\A b \in BatchIds, i \in FileIndexes :
       Cancel(NoId, b, i)
         => \A id \in UploadIds \ {FileUploadId(b, i)} :
              /\ uploadProgressStore'[id] = uploadProgressStore[id]
              /\ (id \in activeUploadTasks') = (id \in activeUploadTasks)
              /\ uploadTasks'[id] = uploadTasks[id]]_vars

\* C24: an upload id whose task or entry a cancel request has removed has no
\* entry in the progress store as long as no new transfer is started for it:
\* its progress query answers 404.
C24_NoEntryAfterCancel ==
  \A id \in UploadIds :
    cancelHist[id].removed => ProgressResponse(id).status = 404

\* the transfer of an upload id has succeeded
Completed(id) == uploadTasks[id].state \in {"processing", "done"}

\* C25: a cancel request for an upload id whose transfer has succeeded
\* answers cancelledCount 0.
C25_CancelAfterCompletionCountsNothing ==
  [][\A id \in UploadIds :
       (Completed(id) /\ Cancel(id, NoBatch, NoIndex))
         => emitted' = <<CancelResponse(0)>>]_vars

\* C26: a POST /cancel for an uploadId that an earlier POST /cancel has named
\* answers success with cancelledCount 0 and leaves the progress store, the
\* active tasks and the transfers unchanged.
C26_SecondCancelChangesNothing ==
  [][\A id \in UploadIds :
       (cancelHist[id].requested /\ Cancel(id, NoBatch, NoIndex))
         => /\ emitted' = <<CancelResponse(0)>>
            /\ UNCHANGED <<uploadProgressStore, activeUploadTasks, uploadTasks>>]_vars

\* C27: a run of the upload sweep leaves no entry in the progress store that
\* is more than one hour old, removes and cancels every active task whose
\* entry was missing or more than one hour old, and the progress query for
\* every id it has evicted answers 404.
TooOld(entry) == now - entry.timestamp > OneHourMs

C27_SweepEvictsStale ==
  [][UploadSweep =>
       /\ \A id \in UploadKeys :
            Has(uploadProgressStore', id) => ~TooOld(uploadProgressStore'[id])
       /\ \A id \in activeUploadTasks :
            (~Has(uploadProgressStore, id) \/ TooOld(uploadProgressStore[id]))
              => /\ id \notin activeUploadTasks'
                 /\ uploadTasks'[id].state # "running"
       /\ \A id \in UploadKeys :
            \/ Has(uploadProgressStore, id) /\ TooOld(uploadProgressStore[id])
            \/ id \in activeUploadTasks /\ id \notin activeUploadTasks'
            => ProgressResponse(id)'.status = 404]_vars

\* C27 witness: the sweep has just evicted two entries and two tasks: the
\* task of a POST /media transfer whose entry was too old and the task of a
\* batch file without entry; both transfers are cancelling.
C27_Witness ==
  /\ emitted = <<CleanupLog(2, 2)>>
  /\ \E id \in UploadIds : /\ uploadTasks[id].route = "media"
                             /\ uploadTasks[id].state = "canceling"
  /\ \E id \in UploadIds : /\ uploadTasks[id].route = "batch"
                             /\ uploadTasks[id].state = "canceling"

\* the sum of the progress of the entries of ids
RECURSIVE ProgressSum(_, _)
ProgressSum(store, ids) ==
  IF ids = {} THEN 0
  ELSE LET id == CHOOSE x \in ids : TRUE
       IN store[id].progress + ProgressSum(store, ids \ {id})

\* C28: GET /progress/batch/:batchId answers the integer nearest to the mean
\* of the progress of the entries that carry the batchId (halves go up), and
\* 404 when no entry carries it.
C28_BatchProgressIsRoundedMean ==
  [][\A b \in BatchIds :
       GetBatchProgress(b) =>
         LET members == {id \in UploadKeys :
                           /\ uploadProgressStore[id].status # "absent"
                           /\ uploadProgressStore[id].batchId = b}
             n == Cardinality(members)
             total == ProgressSum(uploadProgressStore, members)
             answer == emitted'[1]
         IN IF n = 0 THEN answer.status = 404
            ELSE /\ answer.status = 200
                 /\ answer.totalFiles = n
                 /\ 2 * n * answer.progress - n <= 2 * total
                 /\ 2 * total < 2 * n * answer.progress + n]_vars

\* C28 witness: the batch holds two files whose mean progress is not an
\* integer, and the query has answered the next integer above it.
C28_Witness ==
  /\ Len(emitted) = 1
  /\ emitted[1].ev = "response" /\ emitted[1].route = "batchProgress"
  /\ emitted[1].status = 200 /\ emitted[1].totalFiles = 2
  /\ \E id1, id2 \in FileIds :
       /\ id1 # id2
       /\ uploadProgressStore[id1].status = "uploading"
       /\ uploadProgressStore[id2].status \in {"starting", "uploading", "complete"}
       /\ 2 * emitted[1].progress
            = uploadProgressStore[id1].progress + uploadProgressStore[id2].progress + 1

\* the transfer of an upload id has not ended
Live(xfers, id) == xfers[id].state \in {"running", "canceling", "processing"}

\* C29: at most one file of a batch holds an upload task and at most one
\* transfer of its files has not ended; the task of a file is created when
\* the transfers of the other files of the batch have ended and their tasks
\* are removed.
C29_OneFileAtATime ==
  [][\A b \in BatchIds :
       /\ Cardinality({i \in FileIndexes :
                         FileUploadId(b, i) \in activeUploadTasks'}) <= 1
       /\ Cardinality({i \in FileIndexes :
                         Live(uploadTasks', FileUploadId(b, i))}) <= 1
       /\ \A i \in FileIndexes :
            (~Live(uploadTasks, FileUploadId(b, i))
               /\ Live(uploadTasks', FileUploadId(b, i)))
              => \A j \in FileIndexes \ {i} :
                   /\ uploadTasks[FileUploadId(b, j)].state
                        \in {"none", "done", "failed", "canceled"}
                   /\ FileUploadId(b, j) \notin activeUploadTasks]_vars

\* C29 witness: the second file of the batch holds the only task and the
\* first file has completed.
C29_Witness ==
  /\ batchRequest.pc = "upload" /\ batchRequest.i = 1
  /\ activeUploadTasks = {FileUploadId(batchRequest.batchId, 1)}
  /\ uploadTasks[FileUploadId(batchRequest.batchId, 0)].state = "done"
  /\ uploadTasks[FileUploadId(batchRequest.batchId, 1)].state = "running"

\* the transfer or the post-processing of the file of the batch fails
FileFails(id) ==
  /\ uploadTasks[id].route = "batch"
  /\ TransferError(id) \/ ProcessingDone(id, FALSE) \/ TransferCanceled(id)

\* C30: when the transfer or the post-processing of a file of a batch fails
\* the request goes on at the delay before the next file; after the delay the
\* next file is started if there is one, and otherwise the request answers
\* 200 for all its files.
C30_BatchSurvivesFileFailure ==
  [][/\ \A id \in FileIds :
          FileFails(id) => /\ batchRequest'.pc = "delay"
                           /\ batchRequest'.i = batchRequest.i
                           /\ batchRequest'.files = batchRequest.files
                           /\ batchRequest'.completed = batchRequest.completed
     /\ BatchDelay =>
          IF batchRequest.i + 1 < batchRequest.files
            THEN /\ uploadTasks'[FileUploadId(batchRequest.batchId,
                                              batchRequest.i + 1)].state = "running"
                 /\ batchRequest'.i = batchRequest.i + 1
                 /\ emitted' = <<>>
            ELSE /\ Len(emitted') = 1
                 /\ emitted'[1].ev = "response" /\ emitted'[1].route = "batch"
                 /\ emitted'[1].status = 200
                 /\ emitted'[1].successfulCount = batchRequest.completed
                 /\ emitted'[1].totalCount = batchRequest.files
     /\ batchRequest.pc # "idle" =>
          \A k \in 1..Len(emitted') :
            (emitted'[k].ev = "response" /\ emitted'[k].route = "batch")
              => /\ emitted'[k].status = 200
                 /\ batchRequest.i + 1 = batchRequest.files]_vars

\* C30 witness: the request of two files has answered 200 with one
\* successful upload, after the transfer of its first file failed.
C30_Witness ==
  /\ emitted = <<BatchResponse(200, <<FileResult(1, TRUE)>>, 2)>>
  /\ uploadTasks[FileUploadId("b1", 0)].state = "failed"
  /\ uploadTasks[FileUploadId("b1", 1)].state = "done"

\* C31: the response that ends a POST /media/batch request holds one result
\* entry for each submitted file, and the entry tells whether the file has
\* succeeded.
C31_ResultForEveryFile ==
  [][(BatchDelay /\ batchRequest.i + 1 >= batchRequest.files)
       => /\ Len(emitted') = 1
          /\ {emitted'[1].uploads[k].fileIndex :
                k \in 1..Len(emitted'[1].uploads)}
               = 0..(batchRequest.files - 1)
          /\ \A k \in 1..Len(emitted'[1].uploads) :
               emitted'[1].uploads[k].success \in BOOLEAN]_vars

\* C32: when the error callback of a transfer has run, the progress query
\* for its id answers 200 with status error and the id holds no active task.
C32_FailedTransferKeepsErrorSession ==
  [][\A id \in UploadIds :
       TransferError(id)
         => /\ ProgressResponse(id)'.status = 200
            /\ ProgressResponse(id)'.state = "error"
            /\ id \notin activeUploadTasks']_vars

\* C33: every upload id that holds an active task has an entry in the
\* progress store, and the entry has status starting when the task is
\* registered.
C33_ActiveTaskHasSession ==
  [][\A id \in activeUploadTasks' :
       /\ Has(uploadProgressStore', id)
       /\ id \notin activeUploadTasks
            => uploadProgressStore'[id].status = "starting"]_vars

\* C34: whenever no socket handler is in flight, the persisted
\* connectionCount of every user equals the number of connections that
\* connectionTracker holds for the user.
C34_PersistedCountIsTrackedCount ==
  Quiescent => \A u \in Users : db[u].connectionCount = Count(u)

\* C35: once the handlers have finished, a socket that has disconnected is
\* registered neither in connectionTracker nor in connectedUsers / userSockets,
\* also when its disconnect came while its setup awaited the user lookup.
C35_ClosedSocketIsUnregistered ==
  Quiescent =>
    \A s \in Sockets :
      ~sockOpen[s] =>
        /\ ~connections[s].present
        /\ connectedUsers[s] = NoUser
        /\ \A u \in Users : s \notin userConnections[u] /\ s \notin userSockets[u]

\* C36: whenever no handler is in flight, userSockets and connectionTracker
\* hold the same set of socket ids for every user.
C36_RoutingAndPresenceAgree ==
  Quiescent => \A u \in Users : userSockets[u] = userConnections[u]

\* C37: the sweep cancels a running transfer only if the transfer has neither
\* started nor reported progress within the last hour (stated with the
\* boundary of exactly one hour allowed).
C37_SweepSparesFreshUploads ==
  [][UploadSweep =>
       \A id \in activeUploadTasks :
         uploadTasks[id].state = "running" /\ uploadTasks'[id].state # "running"
           => now - uploadTasks[id].since >= OneHourMs]_vars

\* C38: every running transfer is reachable through activeUploadTasks: no
\* transfer loses its slot to a later POST /media with the same uploadId, and
\* the id of a running transfer holds an active task.
C38_RunningTransferIsReachable ==
  \A id \in UploadIds :
    /\ shadowed[id].state # "running"
    /\ uploadTasks[id].state = "running" => id \in activeUploadTasks

\* a POST /cancel with the batchId alone has removed the entry of the batch
\* since the running POST /media/batch request began
BatchCancelled ==
  /\ batchRequest.pc # "idle"
  /\ cancelHist[PlainId(batchRequest.batchId)].removed

\* C39: after a batch has been cancelled by batchId while POST /media/batch
\* is running, no step registers an upload task for a file of the batch and
\* no step stores an entry under the batchId or under the id of one of its
\* files that had none.
C39_CancelledBatchStaysCancelled ==
  [][BatchCancelled =>
       \A id \in UploadKeys :
         id.name = batchRequest.batchId =>
           /\ id \in activeUploadTasks' => id \in activeUploadTasks
           /\ Has(uploadProgressStore', id) => Has(uploadProgressStore, id)]_vars

\* C40: every entry that POST /media/batch stores under the batchId has
\* progress = round(completedFiles / totalFiles * 100), completedFiles being
\* the number of files of the batch that have uploaded, and has status
\* complete only when every file has uploaded.
C40_BatchEntryIsCompletedShare ==
  [][\A b \in BatchIds :
       (/\ uploadProgressStore'[PlainId(b)] # uploadProgressStore[PlainId(b)]
        /\ Has(uploadProgressStore', PlainId(b)))
         => LET req == IF batchRequest'.pc = "idle" THEN batchRequest
                       ELSE batchRequest'
            IN /\ uploadProgressStore'[PlainId(b)].progress
                    = Round(req.completed * 100, req.files)
               /\ uploadProgressStore'[PlainId(b)].status = "complete"
                    => req.completed = req.files]_vars

=============================================================================
